---- MODULE Spec2Model ----
(***************************************************************************)
(* A model of the news collector (collector.py): the airport resolver      *)
(* match_airport, the relevance classifier, normalise, and the merge and   *)
(* publish steps of collect_all.                                           *)
(*                                                                         *)
(* Text is a sequence of one-character strings; positions handed between   *)
(* operators are Python's 0-based offsets.  A value that Python holds as   *)
(* None or "" (both falsy, and treated alike by the code) is the empty     *)
(* sequence <<>>; an optional result (None or a dict) is <<>> or <<dict>>. *)
(***************************************************************************)
EXTENDS Integers, Sequences, FiniteSets, TLC

VARIABLES
    AIRPORTS,       \* the registry loaded from airports.json (a sequence of records)
    SOCIAL,         \* the social filters loaded from social_filters.yaml
    text,           \* match_airport: the text it is given
    m_pc,           \* match_airport: the loop it is in, or the return reached
    m_result,       \* match_airport: <<>> (None) or <<match>>
    entry,          \* normalise: the raw entry
    feedtitle,      \* normalise: the feed's title
    declared_type,  \* normalise: the feed's declared type
    n_pc,           \* normalise: the stage it is at, or the return reached
    loc,            \* normalise: its locals
    n_result,       \* normalise: <<>> (None) or <<item>>
    calls,          \* normalise: the helpers called so far, in call order
    n_ext,          \* normalise: how its external calls have ended so far
    c_pc,           \* collect_all: where it is
    items,          \* collect_all: the items collected
    best,           \* collect_all: the dict best, as a sequence of [k, v]
    out,            \* collect_all: the list out
    data_json,      \* the file data.json
    FEEDS,          \* feeds.yaml and feeds-extra.yaml: the lists of feed URLs
    broken_yaml,    \* the file feeds-broken.yaml: a dict of lists of URLs
    fail_counts,    \* the file feeds-fail-counts.json
    fail_db,        \* collect_all: the dict fail_db
    feed_urls,      \* collect_all: the feeds still to fetch, each [url, declared]
    fetched,        \* the fetches made so far, each [run, url, declared, reason]
    run,            \* the number of runs of collect_all begun
    k_pc,           \* classify_type: called or returned
    k_url,          \* classify_type: its argument url
    k_declared,     \* classify_type: its argument declared
    k_src_domain,   \* classify_type: its argument src_domain
    k_type,         \* classify_type: what it returned
    d_pc,           \* discover_feeds.main: its position
    seeds_txt,      \* discover_feeds.main: the file seeds.txt, <<>> when it is missing, else <<lines>>
    seeds,          \* discover_feeds.main: the list seeds
    workers,        \* the pool's call of discover_for_seed per seed, each [pc, cand, good]
    completed,      \* the seed indexes in the order their calls returned
    mapped,         \* discover_feeds.main: the number of results ex.map has yielded
    all_good,       \* discover_feeds.main: the set all_good
    deduped,        \* discover_feeds.main: the dict deduped
    d_feeds,        \* discover_feeds.main: the list feeds
    feeds_extra     \* the file feeds-extra.yaml, <<>> until written, else <<[news_extra |-> list]>>

m_vars == <<text, m_pc, m_result>>

n_vars == <<entry, feedtitle, declared_type, n_pc, loc, n_result, calls, n_ext>>

c_vars == <<c_pc, items, best, out, data_json>>

f_vars == <<FEEDS, broken_yaml, fail_counts, fail_db, feed_urls, fetched, run>>

k_vars == <<k_pc, k_url, k_declared, k_src_domain, k_type>>

d_vars == <<d_pc, seeds_txt, seeds, workers, completed, mapped, all_good, deduped, d_feeds, feeds_extra>>

vars == <<AIRPORTS, SOCIAL, m_vars, n_vars, c_vars, f_vars, k_vars, d_vars>>

\* the discovery script is not running
DiscoverIdle ==
    /\ d_pc = "idle"
    /\ seeds_txt = <<>>
    /\ seeds = <<>>
    /\ workers = <<>>
    /\ completed = <<>>
    /\ mapped = 0
    /\ all_good = {}
    /\ deduped = <<>>
    /\ d_feeds = <<>>
    /\ feeds_extra = <<>>

----------------------------------------------------------------------------
(* Characters and the str methods the code uses. *)

LowerAlpha ==
    <<"a","b","c","d","e","f","g","h","i","j","k","l","m",
      "n","o","p","q","r","s","t","u","v","w","x","y","z">>

UpperAlpha ==
    <<"A","B","C","D","E","F","G","H","I","J","K","L","M",
      "N","O","P","Q","R","S","T","U","V","W","X","Y","Z">>

DigitChars == {"0","1","2","3","4","5","6","7","8","9"}

LowerSet == {LowerAlpha[i] : i \in 1..26}

UpperSet == {UpperAlpha[i] : i \in 1..26}

\* str.isalpha() of one character
IsAlphaChar(c) == c \in LowerSet \cup UpperSet

\* the regex class \w
IsWordChar(c) == IsAlphaChar(c) \/ c \in DigitChars \/ c = "_"

LowerChar(c) ==
    IF c \in UpperSet THEN LowerAlpha[CHOOSE i \in 1..26 : UpperAlpha[i] = c] ELSE c

UpperChar(c) ==
    IF c \in LowerSet THEN UpperAlpha[CHOOSE i \in 1..26 : LowerAlpha[i] = c] ELSE c

\* str.lower()
str_lower(s) == SubSeq([i \in 1..Len(s) |-> LowerChar(s[i])], 1, Len(s))

\* str.upper()
str_upper(s) == SubSeq([i \in 1..Len(s) |-> UpperChar(s[i])], 1, Len(s))

\* s.isalpha(): non-empty and every character a letter
str_isalpha(s) == Len(s) > 0 /\ \A i \in 1..Len(s) : IsAlphaChar(s[i])

\* the slice s[start:end] for 0 <= start, end <= len(s)
Slice(s, start, end) == SubSeq(s, start + 1, end)

\* the literal lit stands in s at offset p
MatchesAt(s, p, lit) ==
    /\ p >= 0
    /\ p + Len(lit) <= Len(s)
    /\ \A i \in 1..Len(lit) : s[p + i] = lit[i]

\* Python's  lit in s
Contains(s, lit) == \E p \in 0..Len(s) : MatchesAt(s, p, lit)

\* the regex assertion \b at offset p of s
WordBoundary(s, p) ==
    LET before == p > 0 /\ IsWordChar(s[p])
        after  == p < Len(s) /\ IsWordChar(s[p + 1])
    IN  before # after

\* re.finditer(rf"\b{re.escape(lit)}\b", s): the start offsets of the
\* non-overlapping matches, left to right, scanning from offset from
RECURSIVE finditer_word(_, _, _)
finditer_word(lit, s, from) ==
    IF from + Len(lit) > Len(s) THEN <<>>
    ELSE IF /\ MatchesAt(s, from, lit)
            /\ WordBoundary(s, from)
            /\ WordBoundary(s, from + Len(lit))
         THEN <<from>> \o finditer_word(lit, s, from + Len(lit))
         ELSE finditer_word(lit, s, from + 1)

\* finditer_code, had the pattern been written without its \b assertions
RECURSIVE finditer_code_unbounded(_, _)
finditer_code_unbounded(s, from) ==
    IF from + 3 > Len(s) THEN <<>>
    ELSE IF \A i \in 1..3 : s[from + i] \in UpperSet
         THEN <<from>> \o finditer_code_unbounded(s, from + 3)
         ELSE finditer_code_unbounded(s, from + 1)

\* re.finditer(r"\b([A-Z]{3})\b", s): the start offsets of the matches
RECURSIVE finditer_code(_, _)
finditer_code(s, from) ==
    IF from + 3 > Len(s) THEN <<>>
    ELSE IF /\ \A i \in 1..3 : s[from + i] \in UpperSet
            /\ WordBoundary(s, from)
            /\ WordBoundary(s, from + 3)
         THEN <<from>> \o finditer_code(s, from + 3)
         ELSE finditer_code(s, from + 1)

----------------------------------------------------------------------------
(* Strings as Python orders and edits them. *)

\* the characters of the model in code-point order
CharOrder ==
    <<"\n"," ","#","(",")","+","-",".","/","0","1","2","3","4","5","6","7","8","9",":","=","?",
      "A","B","C","D","E","F","G","H","I","J","K","L","M",
      "N","O","P","Q","R","S","T","U","V","W","X","Y","Z","_",
      "a","b","c","d","e","f","g","h","i","j","k","l","m",
      "n","o","p","q","r","s","t","u","v","w","x","y","z">>

\* ord(c), up to an order-preserving renumbering
Ord(c) == CHOOSE i \in 1..Len(CharOrder) : CharOrder[i] = c

\* a < b as Python compares str values: by the first differing code point,
\* a proper prefix being the smaller
RECURSIVE str_lt(_, _)
str_lt(a, b) ==
    IF b = <<>> THEN FALSE
    ELSE IF a = <<>> THEN TRUE
    ELSE IF Head(a) = Head(b) THEN str_lt(Tail(a), Tail(b))
    ELSE Ord(Head(a)) < Ord(Head(b))

\* a > b on str values
str_gt(a, b) == str_lt(b, a)

IsSpaceChar(c) == c \in {" ", "\n"}

\* str.strip()
RECURSIVE str_lstrip(_)
str_lstrip(s) ==
    IF s # <<>> /\ IsSpaceChar(Head(s)) THEN str_lstrip(Tail(s)) ELSE s

RECURSIVE str_rstrip(_)
str_rstrip(s) ==
    IF s # <<>> /\ IsSpaceChar(s[Len(s)]) THEN str_rstrip(SubSeq(s, 1, Len(s) - 1)) ELSE s

str_strip(s) == str_lstrip(str_rstrip(s))

\* str.endswith(suffix)
str_endswith(s, suffix) ==
    Len(suffix) <= Len(s) /\ SubSeq(s, Len(s) - Len(suffix) + 1, Len(s)) = suffix

\* s.replace(old, ""), for a non-empty old: every non-overlapping occurrence,
\* left to right, is removed
RECURSIVE str_remove(_, _)
str_remove(s, old) ==
    IF Len(s) < Len(old) THEN s
    ELSE IF MatchesAt(s, 0, old) THEN str_remove(SubSeq(s, Len(old) + 1, Len(s)), old)
    ELSE <<Head(s)>> \o str_remove(Tail(s), old)

\* s.splitlines(), for "\n" as the only line break
RECURSIVE str_splitlines(_)
str_splitlines(s) ==
    IF s = <<>> THEN <<>>
    ELSE IF \E i \in 1..Len(s) : s[i] = "\n"
         THEN LET i == CHOOSE j \in 1..Len(s) :
                           s[j] = "\n" /\ \A k \in 1..(j - 1) : s[k] # "\n"
              IN  <<SubSeq(s, 1, i - 1)>> \o str_splitlines(SubSeq(s, i + 1, Len(s)))
         ELSE <<s>>

----------------------------------------------------------------------------
(* The airport-context test. *)

w_airport == <<"a","i","r","p","o","r","t">>

ContextWords ==
    { w_airport,
      <<"i","n","t","l">>,
      <<"i","n","t","e","r","n","a","t","i","o","n","a","l">>,
      <<"t","e","r","m","i","n","a","l">>,
      <<"a","i","r","f","i","e","l","d">>,
      <<"a","e","r","o","d","r","o","m","e">> }

\* AIRPORT_CONTEXT.search(s): \b(airport|intl|...)s?\b matches somewhere in s,
\* ignoring case
AIRPORT_CONTEXT_search(s) ==
    LET t == str_lower(s)
    IN  \E p \in 0..Len(t) : \E w \in ContextWords :
            /\ MatchesAt(t, p, w)
            /\ WordBoundary(t, p)
            /\ \/ WordBoundary(t, p + Len(w))
               \/ /\ MatchesAt(t, p + Len(w), <<"s">>)
                  /\ WordBoundary(t, p + Len(w) + 1)

Window == 48

Max2(a, b) == IF a >= b THEN a ELSE b

Min2(a, b) == IF a <= b THEN a ELSE b

\* _has_airport_context, had the window begun at pos
_has_airport_context_forward(s, pos) ==
    AIRPORT_CONTEXT_search(Slice(s, pos, Min2(Len(s), pos + Window)))

_has_airport_context(s, pos) ==
    LET start == Max2(0, pos - Window)
        end   == Min2(Len(s), pos + Window)
    IN  AIRPORT_CONTEXT_search(Slice(s, start, end))

----------------------------------------------------------------------------
(* The registry: airports.json as loaded at import, ALIASES and IATA_TO_LL. *)
(* An airport is [iata, name, city, country, ll, aliases]: ll is <<lat, lon>> *)
(* when both are numbers and <<>> otherwise.                                 *)

w_IST == <<"I","S","T">>

w_LHR == <<"L","H","R">>

w_Heathrow == <<"H","e","a","t","h","r","o","w">>

\* an airports.json: two airports with coordinates and aliases, one with a code
\* and an alias but no coordinates, one with a code and coordinates only
AirportsFile ==
    << [iata |-> w_IST, name |-> "Istanbul Airport", city |-> "Istanbul",
        country |-> <<"T","u","r","k","e","y">>, ll |-> <<41, 29>>,
        aliases |-> <<<<"I","s","t","a","n","b","u","l"," ","A","i","r","p","o","r","t">>>>],
       [iata |-> w_LHR, name |-> "London Heathrow", city |-> "London",
        country |-> <<"U","K">>, ll |-> <<51, 0>>,
        aliases |-> <<w_Heathrow>>],
       [iata |-> <<"F","R","A">>, name |-> "Frankfurt Airport", city |-> "Frankfurt",
        country |-> <<"G","e","r","m","a","n","y">>, ll |-> <<>>,
        aliases |-> <<<<"F","r","a","n","k","f","u","r","t"," ","a","m"," ","M","a","i","n">>>>],
       [iata |-> <<"T","H","E">>, name |-> "Teresina", city |-> "Teresina",
        country |-> <<"B","r","a","z","i","l">>, ll |-> <<-5, -43>>,
        aliases |-> <<>>] >>

\* what the import leaves in AIRPORTS: the file, or [] when it is missing
Registries == {AirportsFile, <<>>}

\* d[k] = v on an insertion-ordered dict, held as a sequence of [k, v]
DictSet(d, k, v) ==
    IF \E i \in 1..Len(d) : d[i].k = k
    THEN [i \in 1..Len(d) |-> IF d[i].k = k THEN [k |-> k, v |-> v] ELSE d[i]]
    ELSE Append(d, [k |-> k, v |-> v])

DictHas(d, k) == \E i \in 1..Len(d) : d[i].k = k

DictGet(d, k) == d[CHOOSE i \in 1..Len(d) : d[i].k = k].v

MetaOf(a) ==
    [iata |-> a.iata, name |-> a.name, city |-> a.city,
     country |-> a.country, ll |-> a.ll]

\* the inner loop: for alias in (a.get("aliases") or []) + [a.get("iata", "")]
RECURSIVE AddAliases(_, _, _)
AddAliases(d, names, meta) ==
    IF names = <<>> THEN d
    ELSE AddAliases(IF Head(names) # <<>>
                    THEN DictSet(d, str_lower(Head(names)), meta)
                    ELSE d,
                    Tail(names), meta)

RECURSIVE ALIASES_upto(_, _)
ALIASES_upto(airports, n) ==
    IF n = 0 THEN <<>>
    ELSE AddAliases(ALIASES_upto(airports, n - 1),
                    Append(airports[n].aliases, airports[n].iata),
                    MetaOf(airports[n]))

\* ALIASES: alias.lower() -> meta, in insertion order
ALIASES(airports) == ALIASES_upto(airports, Len(airports))

RECURSIVE IATA_TO_LL_upto(_, _)
IATA_TO_LL_upto(airports, n) ==
    IF n = 0 THEN <<>>
    ELSE LET d    == IATA_TO_LL_upto(airports, n - 1)
             iata == str_upper(airports[n].iata)
         IN  IF iata # <<>> /\ airports[n].ll # <<>>
             THEN DictSet(d, iata, airports[n].ll)
             ELSE d

\* IATA_TO_LL: IATA code -> (lat, lon), for airports with a code and numbers
IATA_TO_LL(airports) == IATA_TO_LL_upto(airports, Len(airports))

----------------------------------------------------------------------------
(* match_airport *)

\* the dict the alias pass returns for meta
AliasMatch(meta, airports) ==
    LET iata == str_upper(meta.iata)
    IN  [iata |-> iata, name |-> meta.name, city |-> meta.city,
         country |-> meta.country,
         ll |-> IF meta.ll # <<>> THEN meta.ll
                ELSE IF iata # <<>> /\ DictHas(IATA_TO_LL(airports), iata)
                     THEN DictGet(IATA_TO_LL(airports), iata)
                     ELSE <<>>]

\* one alias of the first loop accepts: some whole-word occurrence, with
\* "airport" in the alias or airport context around the occurrence
AliasAccepts(alias, t_lower) ==
    /\ alias # <<>>
    /\ ~(Len(alias) = 3 /\ str_isalpha(alias))
    /\ LET ms == finditer_word(alias, t_lower, 0)
       IN  \E j \in 1..Len(ms) :
               Contains(alias, w_airport) \/ _has_airport_context(t_lower, ms[j])

\* the first loop of match_airport over the dict d from its i-th entry on:
\* <<>> or <<match>>
RECURSIVE alias_scan(_, _, _, _)
alias_scan(t_lower, airports, d, i) ==
    IF i > Len(d) THEN <<>>
    ELSE IF AliasAccepts(d[i].k, t_lower)
         THEN <<AliasMatch(d[i].v, airports)>>
         ELSE alias_scan(t_lower, airports, d, i + 1)

alias_pass(t_lower, airports) == alias_scan(t_lower, airports, ALIASES(airports), 1)

\* next((a for a in AIRPORTS if (a.get("iata") or "").upper() == token), None)
AirportOfCode(airports, token) ==
    IF \E i \in 1..Len(airports) : str_upper(airports[i].iata) = token
    THEN <<airports[CHOOSE i \in 1..Len(airports) :
                /\ str_upper(airports[i].iata) = token
                /\ \A j \in 1..(i - 1) : str_upper(airports[j].iata) # token]>>
    ELSE <<>>

CodeMatch(token, airports) ==
    LET meta == AirportOfCode(airports, token)
    IN  [iata |-> token,
         name |-> IF meta # <<>> THEN meta[1].name ELSE "",
         city |-> IF meta # <<>> THEN meta[1].city ELSE "",
         country |-> IF meta # <<>> THEN meta[1].country ELSE <<>>,
         ll |-> DictGet(IATA_TO_LL(airports), token)]

\* CodeAccepts, had the context test been left out
CodeAccepts_no_context(t_lower, t_upper, airports, pos) ==
    DictHas(IATA_TO_LL(airports), Slice(t_upper, pos, pos + 3))

\* a token of the second loop accepts
CodeAccepts(t_lower, t_upper, airports, pos) ==
    /\ DictHas(IATA_TO_LL(airports), Slice(t_upper, pos, pos + 3))
    /\ _has_airport_context(t_lower, pos)

\* the second loop of match_airport over the matches ms from the j-th on
RECURSIVE code_scan(_, _, _, _, _)
code_scan(t_lower, t_upper, airports, ms, j) ==
    IF j > Len(ms) THEN <<>>
    ELSE IF CodeAccepts(t_lower, t_upper, airports, ms[j])
         THEN <<CodeMatch(Slice(t_upper, ms[j], ms[j] + 3), airports)>>
         ELSE code_scan(t_lower, t_upper, airports, ms, j + 1)

bare_pass(t, airports) ==
    LET t_lower == str_lower(t)
        t_upper == str_upper(t)
    IN  code_scan(t_lower, t_upper, airports, finditer_code(t_upper, 0), 1)

match_airport(t, airports) ==
    IF t = <<>> THEN <<>>
    ELSE LET r == alias_pass(str_lower(t), airports)
         IN  IF r # <<>> THEN r ELSE bare_pass(t, airports)

----------------------------------------------------------------------------
(* Helpers of collector.py. *)

\* sha1_16: the digest of s, taken to be collision-free
sha1_16(s) == [sha1_16_of |-> s]

w_http == <<"h","t","t","p",":","/","/">>

w_https == <<"h","t","t","p","s",":","/","/">>

w_www_dot == <<"w","w","w",".">>

\* the offsets in url where https?:// stands and at least one character
\* other than "/" follows
SchemeOffsets(url) ==
    {p \in 0..Len(url) :
        \E sch \in {w_http, w_https} :
            /\ MatchesAt(url, p, sch)
            /\ p + Len(sch) < Len(url)
            /\ url[p + Len(sch) + 1] # "/"}

\* the longest run of characters other than "/" from offset p of url
RECURSIVE HostFrom(_, _)
HostFrom(url, p) ==
    IF p >= Len(url) \/ url[p + 1] = "/" THEN <<>>
    ELSE <<url[p + 1]>> \o HostFrom(url, p + 1)

\* domain_of: the host of the first https?://host in url, lower-cased, with
\* every "www." removed; "" when there is none
domain_of(url) ==
    IF SchemeOffsets(url) = {} THEN <<>>
    ELSE LET p   == CHOOSE q \in SchemeOffsets(url) : \A r \in SchemeOffsets(url) : q <= r
             sch == IF MatchesAt(url, p, w_http) THEN w_http ELSE w_https
         IN  str_remove(str_lower(HostFrom(url, p + Len(sch))), w_www_dot)

\* strip_html on markup-free text: get_text(" ", strip=True) leaves the text
\* with the white space at its ends removed
strip_html(raw) == IF raw = <<>> THEN <<>> ELSE str_strip(raw)

w_no_title == <<"(","n","o"," ","t","i","t","l","e",")">>

TitleCut == 160

\* the lines ln of the sequence with a non-blank ln.strip(), in order
NonBlankLines(lines) == SelectSeq(lines, LAMBDA ln : str_strip(ln) # <<>>)

derive_title(raw_title, summary) ==
    LET t     == str_strip(strip_html(raw_title))
        lines == NonBlankLines(str_splitlines(str_strip(summary)))
        first == IF lines = <<>> THEN <<>> ELSE lines[1]
    IN  IF t # <<>> /\ str_lower(t) # w_no_title THEN t
        ELSE IF first # <<>> THEN SubSeq(first, 1, Min2(Len(first), TitleCut))
        ELSE w_no_title

----------------------------------------------------------------------------
(* The watch terms (watch_terms.yaml) and the relevance classifier. *)

CORE == { <<"f","i","r","e">>, <<"S","e","c","u","r","i","t","y">> }

DIPLO == { <<"e","m","b","a","s","s","y">> }

EXCLUDE == { <<"F","o","o","t","b","a","l","l">> }

tag_airport_security == <<"a","i","r","p","o","r","t","/","s","e","c","u","r","i","t","y">>

tag_diplomatic == <<"d","i","p","l","o","m","a","t","i","c">>

\* a variant that compares the text as it is written
should_exclude_cased(t) ==
    \E x \in EXCLUDE : Contains(t, x)

should_exclude(t) ==
    \E x \in EXCLUDE : Contains(str_lower(t), str_lower(x))

tags_for(t) ==
    (IF \E x \in CORE : Contains(str_lower(t), str_lower(x))
     THEN <<tag_airport_security>> ELSE <<>>)
    \o
    (IF \E x \in DIPLO : Contains(str_lower(t), str_lower(x))
     THEN <<tag_diplomatic>> ELSE <<>>)

----------------------------------------------------------------------------
(* The source classifier. *)

MAJOR_DOMAINS ==
    { <<"r","e","u","t","e","r","s",".","c","o","m">>,
      <<"b","b","c",".","c","o",".","u","k">>,
      <<"a","p","n","e","w","s",".","c","o","m">>,
      <<"t","h","e","g","u","a","r","d","i","a","n",".","c","o","m">>,
      <<"n","y","t","i","m","e","s",".","c","o","m">>,
      <<"b","l","o","o","m","b","e","r","g",".","c","o","m">>,
      <<"f","t",".","c","o","m">>,
      <<"a","l","j","a","z","e","e","r","a",".","c","o","m">>,
      <<"d","w",".","c","o","m">>,
      <<"f","r","a","n","c","e","2","4",".","c","o","m">>,
      <<"e","u","r","o","n","e","w","s",".","c","o","m">>,
      <<"a","v","h","e","r","a","l","d",".","c","o","m">>,
      <<"g","o","v",".","u","k">>,
      <<"f","a","a",".","g","o","v">>,
      <<"e","a","s","a",".","e","u","r","o","p","a",".","e","u">>,
      <<"n","c","s","c",".","g","o","v",".","u","k">>,
      <<"n","o","a","a",".","g","o","v">> }

w_social == <<"s","o","c","i","a","l">>

\* a variant that compares the declared type as it is written
classify_type_cased(url, declared, src_domain) ==
    IF declared = w_social THEN "social"
    ELSE IF \E d \in MAJOR_DOMAINS : str_endswith(src_domain, d)
         THEN "major news" ELSE "local news"

\* lines 180-182
classify_type(url, declared, src_domain) ==
    IF str_lower(declared) = w_social THEN "social"
    ELSE IF \E d \in MAJOR_DOMAINS : str_endswith(src_domain, d)
         THEN "major news" ELSE "local news"

----------------------------------------------------------------------------
(* Publish times.  A datetime is [d, h, us, off]: day of January 2024, hour, *)
(* microsecond, and UTC offset in hours (minutes and seconds are zero).      *)

DigitSeq == <<"0","1","2","3","4","5","6","7","8","9">>

\* n as k decimal digits, zero-padded
RECURSIVE Digits(_, _)
Digits(n, k) ==
    IF k = 0 THEN <<>> ELSE Digits(n \div 10, k - 1) \o <<DigitSeq[(n % 10) + 1]>>

\* dt.astimezone(timezone.utc)
astimezone_utc(dt) ==
    LET total == dt.d * 24 + dt.h - dt.off
    IN  [d |-> total \div 24, h |-> total % 24, us |-> dt.us, off |-> 0]

\* dt.isoformat(): YYYY-MM-DDTHH:MM:SS[.ffffff]+HH:MM
isoformat(dt) ==
    <<"2","0","2","4","-","0","1","-">> \o Digits(dt.d, 2) \o <<"T">> \o Digits(dt.h, 2)
    \o <<":","0","0",":","0","0">>
    \o (IF dt.us # 0 THEN <<".">> \o Digits(dt.us, 6) ELSE <<>>)
    \o (IF dt.off >= 0 THEN <<"+">> \o Digits(dt.off, 2) ELSE <<"-">> \o Digits(-dt.off, 2))
    \o <<":","0","0">>

\* a variant that gives up at the first field that does not parse
RECURSIVE first_parsed_no_retry(_)
first_parsed_no_retry(fields) ==
    IF fields = <<>> THEN <<>>
    ELSE IF Head(fields).p = "ok" THEN <<astimezone_utc(Head(fields).dt)>>
    ELSE IF Head(fields).p = "bad" THEN <<>>
    ELSE first_parsed_no_retry(Tail(fields))

\* the loop over ("published", "updated", "created"): each field is absent
\* (or empty), present and rejected by dtparse.parse, or present and parsed
\* to dt; <<>> when no field gives a time
RECURSIVE first_parsed(_)
first_parsed(fields) ==
    IF fields = <<>> THEN <<>>
    ELSE IF Head(fields).p = "ok" THEN <<astimezone_utc(Head(fields).dt)>>
    ELSE first_parsed(Tail(fields))

----------------------------------------------------------------------------
(* The social filters (social_filters.yaml): a configuration is              *)
(* [block_domains, block_terms, allow_links, allow_gov, min_text].           *)

\* the length of the match of [^\s)]+ from offset p of t
RECURSIVE UrlRun(_, _)
UrlRun(t, p) ==
    IF p >= Len(t) \/ IsSpaceChar(t[p + 1]) \/ t[p + 1] = ")" THEN 0
    ELSE 1 + UrlRun(t, p + 1)

\* URL_RE.findall(text) scanning from offset from: https?://[^\s)]+, ignoring case
RECURSIVE extract_urls_from(_, _)
extract_urls_from(t, from) ==
    IF from >= Len(t) THEN <<>>
    ELSE LET tl  == str_lower(t)
             sch == IF MatchesAt(tl, from, w_https) THEN w_https
                    ELSE IF MatchesAt(tl, from, w_http) THEN w_http ELSE <<>>
             n   == IF sch = <<>> THEN 0 ELSE UrlRun(t, from + Len(sch))
         IN  IF n > 0
             THEN <<Slice(t, from, from + Len(sch) + n)>>
                  \o extract_urls_from(t, from + Len(sch) + n)
             ELSE extract_urls_from(t, from + 1)

extract_urls(t) == extract_urls_from(t, 0)

\* looks_gov_like: \.(gov|mil|gob\.[a-z]{2}|go\.[a-z]{2})(?:$|/) is found in d
looks_gov_like(d) ==
    \E p \in 0..Len(d) : \E n \in 1..(Len(d) - p) :
        LET m == Slice(d, p, p + n)
        IN  /\ \/ m \in {<<".","g","o","v">>, <<".","m","i","l">>}
               \/ /\ n = 7 /\ MatchesAt(m, 0, <<".","g","o","b",".">>)
                  /\ m[6] \in LowerSet /\ m[7] \in LowerSet
               \/ /\ n = 6 /\ MatchesAt(m, 0, <<".","g","o",".">>)
                  /\ m[5] \in LowerSet /\ m[6] \in LowerSet
            /\ \/ p + n = Len(d)
               \/ p + n = Len(d) - 1 /\ d[Len(d)] = "\n"
               \/ d[p + n + 1] = "/"

\* a variant without the link allow policy of lines 217-222
is_social_allowed_any_link(cfg, post_url, t) ==
    LET host == domain_of(post_url)
    IN  IF host \in cfg.block_domains THEN FALSE
        ELSE IF cfg.min_text # 0 /\ Len(str_strip(t)) < cfg.min_text THEN FALSE
        ELSE IF \E term \in cfg.block_terms : Contains(str_lower(t), str_lower(term))
             THEN FALSE
        ELSE TRUE

\* lines 203-224
is_social_allowed(cfg, post_url, t) ==
    LET host  == domain_of(post_url)
        links == [i \in 1..Len(extract_urls(t)) |-> domain_of(extract_urls(t)[i])]
    IN  IF host \in cfg.block_domains THEN FALSE
        ELSE IF cfg.min_text # 0 /\ Len(str_strip(t)) < cfg.min_text THEN FALSE
        ELSE IF \E term \in cfg.block_terms : Contains(str_lower(t), str_lower(term))
             THEN FALSE
        ELSE IF cfg.allow_links # {}
             THEN \/ \E i \in 1..Len(links) : links[i] \in cfg.allow_links
                  \/ cfg.allow_gov /\ \E i \in 1..Len(links) : looks_gov_like(links[i])
        ELSE TRUE

----------------------------------------------------------------------------
(* normalise, stage by stage.  The locals are held in one record; the        *)
(* outcomes of the external calls (langdetect, the translator, the clock)    *)
(* are inputs of the stages that make them.                                  *)

w_Fire == <<"F","i","r","e">>

\* what GoogleTranslator(...).translate(s) returns when it succeeds
GoogleTranslate(s) ==
    IF s = <<"F","e","u","e","r">> THEN w_Fire
    ELSE IF s = <<"F","u","s","s","b","a","l","l">> THEN <<"F","o","o","t","b","a","l","l">>
    ELSE s

\* safe_detect: outcome is the code langdetect returns, or "raise" for a
\* LangDetectException
safe_detect(t, outcome) ==
    IF t # <<>> /\ str_strip(t) # <<>>
    THEN IF outcome = "raise" THEN "en" ELSE outcome
    ELSE "en"

\* a variant that returns the empty string when the translator raises
to_english_blank(s, outcome) ==
    IF s = <<>> THEN s
    ELSE IF outcome = "raise" THEN <<>> ELSE GoogleTranslate(s)

\* to_english: outcome is "ok", or "raise" for an exception of the translator
to_english(s, outcome) ==
    IF s = <<>> THEN s
    ELSE IF outcome = "raise" THEN s ELSE GoogleTranslate(s)

\* no external call made yet
NoExt == [detect |-> "", tr_title |-> "", tr_summary |-> ""]

NoLocals ==
    [url |-> <<>>, title_clean |-> <<>>, summary_clean |-> <<>>, lang |-> "",
     title_en |-> <<>>, summary_en |-> <<>>, text_for_filter |-> <<>>,
     pub |-> <<>>, src_dom |-> <<>>, src_name |-> <<>>,
     item_tags |-> <<>>, geo |-> <<>>]

\* lines 272-277
stage_clean(e) ==
    [NoLocals EXCEPT
        !.url = IF e.link # <<>> THEN e.link ELSE e.id,
        !.summary_clean = strip_html(e.summary),
        !.title_clean = derive_title(e.title, strip_html(e.summary))]

\* line 279
stage_detect(l, outcome) ==
    [l EXCEPT !.lang = safe_detect(l.title_clean \o <<" ">> \o l.summary_clean, outcome)]

\* lines 280-282
stage_translate(l, title_outcome, summary_outcome) ==
    LET title_en   == IF l.lang = "en" THEN l.title_clean
                      ELSE to_english(l.title_clean, title_outcome)
        summary_en == IF l.lang = "en" THEN l.summary_clean
                      ELSE to_english(l.summary_clean, summary_outcome)
    IN  [l EXCEPT !.title_en = title_en, !.summary_en = summary_en,
                  !.text_for_filter = title_en \o <<" ">> \o summary_en]

\* line 285
stage_excluded(l) == should_exclude(l.text_for_filter)

\* lines 288-297
stage_time(l, e, ftitle, now) ==
    LET pub == first_parsed(<<e.published, e.updated, e.created>>)
    IN  [l EXCEPT !.pub = IF pub # <<>> THEN pub ELSE <<now>>,
                  !.src_dom = domain_of(l.url),
                  !.src_name = IF ftitle # <<>> THEN ftitle ELSE domain_of(l.url)]

\* lines 300-302
stage_social_blocked(l, declared, cfg) ==
    str_lower(declared) = w_social /\ ~is_social_allowed(cfg, l.url, l.text_for_filter)

\* line 305
stage_tags(l) == [l EXCEPT !.item_tags = tags_for(l.text_for_filter)]

\* a variant that fills geo with blanks when no airport is matched
stage_airport_blank_geo(l, airports) ==
    LET ap == match_airport(l.text_for_filter, airports)
    IN  IF ap = <<>>
        THEN [l EXCEPT !.geo = <<[airport |-> "", city |-> "", country |-> <<>>,
                                  iata |-> <<>>, ll |-> <<>>]>>]
        ELSE [l EXCEPT
                !.geo = <<[airport |-> ap[1].name, city |-> ap[1].city,
                           country |-> ap[1].country, iata |-> ap[1].iata,
                           ll |-> ap[1].ll]>>]

\* lines 306-314
stage_airport(l, airports) ==
    LET ap == match_airport(l.text_for_filter, airports)
    IN  IF ap = <<>> THEN l
        ELSE [l EXCEPT
                !.geo = <<[airport |-> ap[1].name, city |-> ap[1].city,
                           country |-> ap[1].country, iata |-> ap[1].iata,
                           ll |-> ap[1].ll]>>,
                !.item_tags = l.item_tags
                    \o (IF ap[1].iata # <<>> THEN <<ap[1].iata>> ELSE <<>>)
                    \o (IF ap[1].country # <<>> THEN <<ap[1].country>> ELSE <<>>)]

\* a variant that accepts any tag
stage_relevant_any_tag(l) == l.item_tags # <<>>

\* line 317
stage_relevant(l) ==
    \E i \in 1..Len(l.item_tags) :
        l.item_tags[i] = tag_airport_security \/ l.item_tags[i] = tag_diplomatic

\* sorted(set(tags))
RECURSIVE SortedOf(_)
SortedOf(S) ==
    IF S = {} THEN <<>>
    ELSE LET least == CHOOSE x \in S : \A y \in S \ {x} : str_lt(x, y)
         IN  <<least>> \o SortedOf(S \ {least})

sorted_set(tags) == SortedOf({tags[i] : i \in 1..Len(tags)})

\* a variant whose id also depends on the title
stage_assemble_id_of_title(l, declared) ==
    [id |-> sha1_16(l.url \o l.title_en),
     title_orig |-> l.title_clean, summary_orig |-> l.summary_clean,
     lang |-> l.lang, title_en |-> l.title_en, summary_en |-> l.summary_en,
     url |-> l.url, source |-> l.src_name,
     published_at |-> isoformat(l.pub[1]),
     tags |-> sorted_set(l.item_tags),
     type |-> classify_type(l.url, declared, l.src_dom),
     geo |-> l.geo]

\* lines 320-338
stage_assemble(l, declared) ==
    [id |-> sha1_16(IF l.url # <<>> THEN l.url ELSE l.title_en),
     title_orig |-> l.title_clean, summary_orig |-> l.summary_clean,
     lang |-> l.lang, title_en |-> l.title_en, summary_en |-> l.summary_en,
     url |-> l.url, source |-> l.src_name,
     published_at |-> isoformat(l.pub[1]),
     tags |-> sorted_set(l.item_tags),
     type |-> classify_type(l.url, declared, l.src_dom),
     geo |-> l.geo]

\* normalise(entry, feedtitle, declared_type): <<>> (None) or <<item>>; ext
\* gives the outcomes of its external calls
normalise(e, ftitle, declared, ext, cfg, airports) ==
    LET l3 == stage_translate(stage_detect(stage_clean(e), ext.detect),
                              ext.tr_title, ext.tr_summary)
        l4 == stage_time(l3, e, ftitle, ext.now)
        l6 == stage_airport(stage_tags(l4), airports)
    IN  IF stage_excluded(l3) THEN <<>>
        ELSE IF stage_social_blocked(l4, declared, cfg) THEN <<>>
        ELSE IF ~stage_relevant(l6) THEN <<>>
        ELSE <<stage_assemble(l6, declared)>>

----------------------------------------------------------------------------
(* The merge step of collect_all (lines 382-388). *)

\* a variant that keeps the first item seen for an id
best_update_first_seen(d, it) ==
    IF ~DictHas(d, it.id) THEN DictSet(d, it.id, it) ELSE d

\* a variant that keeps the last item seen for an id
best_update_last_seen(d, it) == DictSet(d, it.id, it)

\* one turn of the loop over items: best[k] = it when k is new or it is newer
best_update(d, it) ==
    IF ~DictHas(d, it.id) \/ str_gt(it.published_at, DictGet(d, it.id).published_at)
    THEN DictSet(d, it.id, it)
    ELSE d

\* the loop over items lo..hi of its, begun with the dict d: the turns for
\* lo..mid, then (their result evaluated) the turns for mid+1..hi
RECURSIVE best_over(_, _, _, _)
best_over(d, its, lo, hi) ==
    IF lo > hi THEN d
    ELSE IF lo = hi THEN best_update(d, its[lo])
    ELSE LET mid  == (lo + hi) \div 2
             left == best_over(d, its, lo, mid)
         IN  IF Len(left) >= 0 THEN best_over(left, its, mid + 1, hi) ELSE left

\* the whole loop, lines 383-386
best_of(its) == best_over(<<>>, its, 1, Len(its))

\* list(best.values())
dict_values(d) == [i \in 1..Len(d) |-> d[i].v]

\* a variant that leaves the list as it is
sort_none(l) == l

\* out.sort(key=lambda x: x["published_at"], reverse=True): a stable sort,
\* so an element's place is after the elements of greater key and after the
\* elements of equal key that stood before it (the places are worked out
\* once, by the comparison, before the list is built)
sort_desc(l) ==
    LET place == [i \in 1..Len(l) |->
                    1 + Cardinality({ j \in 1..Len(l) :
                          \/ str_gt(l[j].published_at, l[i].published_at)
                          \/ j < i /\ l[j].published_at = l[i].published_at })]
    IN  IF place = <<>> THEN <<>>
        ELSE [p \in 1..Len(l) |-> l[CHOOSE i \in 1..Len(l) : place[i] = p]]

OutCap == 500

\* a variant that keeps the end of the list
cap_tail(l) == SubSeq(l, Max2(1, Len(l) - OutCap + 1), Len(l))

\* out[:500]
cap(l) == SubSeq(l, 1, Min2(Len(l), OutCap))

\* lines 382-388 as one function of items
merge_items(its) == cap(sort_desc(dict_values(best_of(its))))

----------------------------------------------------------------------------
(* collect_all from the merge on, as a process; data.json is                 *)
(* [items, valid]: the items written to it, and whether it holds a whole    *)
(* JSON document.  A file not yet written is [items |-> <<>>, valid |->      *)
(* FALSE].                                                                   *)

C_Dedup ==
    /\ c_pc = "dedup"
    /\ best' = best_of(items)
    /\ c_pc' = "sort"
    /\ UNCHANGED <<items, out, data_json>>
    /\ UNCHANGED <<AIRPORTS, SOCIAL, m_vars, n_vars, f_vars, k_vars, d_vars>>

C_Sort ==
    /\ c_pc = "sort"
    /\ out' = sort_desc(dict_values(best))
    /\ c_pc' = "cap"
    /\ UNCHANGED <<items, best, data_json>>
    /\ UNCHANGED <<AIRPORTS, SOCIAL, m_vars, n_vars, f_vars, k_vars, d_vars>>

C_Cap ==
    /\ c_pc = "cap"
    /\ out' = cap(out)
    /\ c_pc' = "open"
    /\ UNCHANGED <<items, best, data_json>>
    /\ UNCHANGED <<AIRPORTS, SOCIAL, m_vars, n_vars, f_vars, k_vars, d_vars>>

\* open(DATA_OUT, "w"): the file is truncated
W_Open ==
    /\ c_pc = "open"
    /\ data_json' = [items |-> <<>>, valid |-> FALSE]
    /\ c_pc' = "dump"
    /\ UNCHANGED <<items, best, out>>
    /\ UNCHANGED <<AIRPORTS, SOCIAL, m_vars, n_vars, f_vars, k_vars, d_vars>>

\* json.dump has written part of the document
W_Partial ==
    /\ c_pc = "dump"
    /\ data_json' = [items |-> SubSeq(out, 1, Len(out) \div 2), valid |-> FALSE]
    /\ c_pc' = "dumping"
    /\ UNCHANGED <<items, best, out>>
    /\ UNCHANGED <<AIRPORTS, SOCIAL, m_vars, n_vars, f_vars, k_vars, d_vars>>

\* json.dump has written the whole document and the file is closed
W_Close ==
    /\ c_pc = "dumping"
    /\ data_json' = [items |-> out, valid |-> TRUE]
    /\ c_pc' = "done"
    /\ UNCHANGED <<items, best, out>>
    /\ UNCHANGED <<AIRPORTS, SOCIAL, m_vars, n_vars, f_vars, k_vars, d_vars>>

\* the write raises (a full disk, an I/O error) or the process is killed:
\* the with-block closes the file as it is and collect_all ends
W_Fail ==
    /\ c_pc \in {"dump", "dumping"}
    /\ c_pc' = "failed"
    /\ UNCHANGED <<items, best, out, data_json>>
    /\ UNCHANGED <<AIRPORTS, SOCIAL, m_vars, n_vars, f_vars, k_vars, d_vars>>

MergeAndWrite == C_Dedup \/ C_Sort \/ C_Cap \/ W_Open \/ W_Partial \/ W_Close \/ W_Fail

----------------------------------------------------------------------------
(* match_airport as a process: the alias loop, then the bare-code loop.     *)
(* m_pc ends at the return statement reached: "return_alias" (line 162),    *)
(* "return_code" (line 169) or "return_none" (lines 146, 173).              *)

AliasPass ==
    /\ m_pc = "alias"
    /\ LET r == IF text = <<>> THEN <<>> ELSE alias_pass(str_lower(text), AIRPORTS)
       IN  /\ m_result' = r
           /\ m_pc' = IF text = <<>> THEN "return_none"
                      ELSE IF r # <<>> THEN "return_alias" ELSE "bare"
    /\ UNCHANGED <<AIRPORTS, SOCIAL, text, n_vars, c_vars, f_vars, k_vars, d_vars>>

BareCodePass ==
    /\ m_pc = "bare"
    /\ m_result' = bare_pass(text, AIRPORTS)
    /\ m_pc' = IF m_result' # <<>> THEN "return_code" ELSE "return_none"
    /\ UNCHANGED <<AIRPORTS, SOCIAL, text, n_vars, c_vars, f_vars, k_vars, d_vars>>

----------------------------------------------------------------------------
(* normalise as a process.  n_pc ends at the return reached:                *)
(* "return_excluded" (line 285), "return_social" (line 302),                *)
(* "return_irrelevant" (line 318) or "return_item" (line 323).              *)

DetectOutcomes == {"en", "de", "raise"}

CallOutcomes == {"ok", "raise"}

\* the readings of the clock
Nows == { [d |-> 9, h |-> 12, us |-> 250000, off |-> 0] }

N_Clean ==
    /\ n_pc = "start"
    /\ loc' = stage_clean(entry)
    /\ n_pc' = "detect"
    /\ UNCHANGED <<entry, feedtitle, declared_type, n_result, calls, n_ext>>
    /\ UNCHANGED <<AIRPORTS, SOCIAL, m_vars, c_vars, f_vars, k_vars, d_vars>>

N_Detect ==
    /\ n_pc = "detect"
    /\ \E outcome \in DetectOutcomes :
          /\ loc' = stage_detect(loc, outcome)
          /\ n_ext' = [n_ext EXCEPT !.detect =
                          IF str_strip(loc.title_clean \o <<" ">> \o loc.summary_clean) = <<>>
                          THEN "not called" ELSE outcome]
    /\ calls' = Append(calls, "safe_detect")
    /\ n_pc' = "translate"
    /\ UNCHANGED <<entry, feedtitle, declared_type, n_result>>
    /\ UNCHANGED <<AIRPORTS, SOCIAL, m_vars, c_vars, f_vars, k_vars, d_vars>>

N_Translate ==
    /\ n_pc = "translate"
    /\ \E t \in CallOutcomes : \E u \in CallOutcomes :
          /\ loc' = stage_translate(loc, t, u)
          /\ n_ext' = [n_ext EXCEPT
                          !.tr_title = IF loc.lang = "en" \/ loc.title_clean = <<>>
                                       THEN "not called" ELSE t,
                          !.tr_summary = IF loc.lang = "en" \/ loc.summary_clean = <<>>
                                         THEN "not called" ELSE u]
    /\ calls' = IF loc.lang = "en" THEN calls
                ELSE calls \o <<"to_english", "to_english">>
    /\ n_pc' = "exclude"
    /\ UNCHANGED <<entry, feedtitle, declared_type, n_result>>
    /\ UNCHANGED <<AIRPORTS, SOCIAL, m_vars, c_vars, f_vars, k_vars, d_vars>>

N_Exclude ==
    /\ n_pc = "exclude"
    /\ calls' = Append(calls, "should_exclude")
    /\ IF stage_excluded(loc)
       THEN n_result' = <<>> /\ n_pc' = "return_excluded"
       ELSE n_result' = n_result /\ n_pc' = "time"
    /\ UNCHANGED <<entry, feedtitle, declared_type, loc, n_ext>>
    /\ UNCHANGED <<AIRPORTS, SOCIAL, m_vars, c_vars, f_vars, k_vars, d_vars>>

N_Time ==
    /\ n_pc = "time"
    /\ \E now \in Nows : loc' = stage_time(loc, entry, feedtitle, now)
    /\ n_pc' = "social"
    /\ UNCHANGED <<entry, feedtitle, declared_type, n_result, calls, n_ext>>
    /\ UNCHANGED <<AIRPORTS, SOCIAL, m_vars, c_vars, f_vars, k_vars, d_vars>>

N_Social ==
    /\ n_pc = "social"
    /\ calls' = IF str_lower(declared_type) = w_social
                THEN Append(calls, "is_social_allowed") ELSE calls
    /\ IF stage_social_blocked(loc, declared_type, SOCIAL)
       THEN n_result' = <<>> /\ n_pc' = "return_social"
       ELSE n_result' = n_result /\ n_pc' = "tags"
    /\ UNCHANGED <<entry, feedtitle, declared_type, loc, n_ext>>
    /\ UNCHANGED <<AIRPORTS, SOCIAL, m_vars, c_vars, f_vars, k_vars, d_vars>>

N_Tags ==
    /\ n_pc = "tags"
    /\ loc' = stage_tags(loc)
    /\ calls' = Append(calls, "tags_for")
    /\ n_pc' = "airport"
    /\ UNCHANGED <<entry, feedtitle, declared_type, n_result, n_ext>>
    /\ UNCHANGED <<AIRPORTS, SOCIAL, m_vars, c_vars, f_vars, k_vars, d_vars>>

N_Airport ==
    /\ n_pc = "airport"
    /\ loc' = stage_airport(loc, AIRPORTS)
    /\ calls' = Append(calls, "match_airport")
    /\ n_pc' = "gate"
    /\ UNCHANGED <<entry, feedtitle, declared_type, n_result, n_ext>>
    /\ UNCHANGED <<AIRPORTS, SOCIAL, m_vars, c_vars, f_vars, k_vars, d_vars>>

N_Gate ==
    /\ n_pc = "gate"
    /\ IF stage_relevant(loc)
       THEN n_result' = n_result /\ n_pc' = "assemble"
       ELSE n_result' = <<>> /\ n_pc' = "return_irrelevant"
    /\ UNCHANGED <<entry, feedtitle, declared_type, loc, calls, n_ext>>
    /\ UNCHANGED <<AIRPORTS, SOCIAL, m_vars, c_vars, f_vars, k_vars, d_vars>>

N_Assemble ==
    /\ n_pc = "assemble"
    /\ n_result' = <<stage_assemble(loc, declared_type)>>
    /\ n_pc' = "return_item"
    /\ UNCHANGED <<entry, feedtitle, declared_type, loc, calls, n_ext>>
    /\ UNCHANGED <<AIRPORTS, SOCIAL, m_vars, c_vars, f_vars, k_vars, d_vars>>

\* collect_block, line 357, for the last entry of the last feed: the item
\* is added to the items collected, and collect_all goes on to the merge
N_Append ==
    /\ n_pc \in {"return_excluded", "return_social", "return_irrelevant", "return_item"}
    /\ c_pc = "collect"
    /\ items' = items \o n_result
    /\ c_pc' = "dedup"
    /\ UNCHANGED <<best, out, data_json>>
    /\ UNCHANGED <<AIRPORTS, SOCIAL, m_vars, n_vars, f_vars, k_vars, d_vars>>

NormaliseStep ==
    \/ N_Clean \/ N_Detect \/ N_Translate \/ N_Exclude \/ N_Time
    \/ N_Social \/ N_Tags \/ N_Airport \/ N_Gate \/ N_Assemble \/ N_Append

----------------------------------------------------------------------------
(* The entries normalise is run on. *)

w_news == <<"n","e","w","s">>

NoField == [p |-> "absent", dt |-> [d |-> 0, h |-> 0, us |-> 0, off |-> 0]]

BadField == [p |-> "bad", dt |-> [d |-> 0, h |-> 0, us |-> 0, off |-> 0]]

OkField(d, h, us, off) == [p |-> "ok", dt |-> [d |-> d, h |-> h, us |-> us, off |-> off]]

url_bbc == <<"h","t","t","p",":","/","/","w","w","w",".","b","b","c",".","c","o",".","u","k","/","a">>

url_local == <<"h","t","t","p","s",":","/","/","n","e","w","s",".","e","x","a","m","p","l","e",".","o","r","g","/","b">>

url_social == <<"h","t","t","p","s",":","/","/","s","p","a","m",".","e","x","a","m","p","l","e","/","p">>

Titles ==
    { <<>>,
      <<"F","I","R","E"," ","d","r","i","l","l">>,
      <<"f","o","o","t","b","a","l","l"," ","F","i","r","e">>,
      <<"E","m","b","a","s","s","y">>,
      <<"H","e","a","t","h","r","o","w">>,
      <<"F","e","u","e","r">>,
      <<"F","u","s","s","b","a","l","l">>,
      <<"(","N","o"," ","T","i","t","l","e",")">> }

Summaries ==
    { <<>>,
      <<"F","e","u","e","r">>,
      <<"a","t"," ","H","e","a","t","h","r","o","w"," ","t","e","r","m","i","n","a","l">>,
      <<"I","S","T"," ","a","i","r","p","o","r","t"," ","s","e","c","u","r","i","t","y">>,
      <<"F","r","a","n","k","f","u","r","t"," ","a","m"," ","M","a","i","n"," ","a","i","r","p","o","r","t">>,
      <<"F","O","O","T","B","A","L","L","\n"," ","e","m","b","a","s","s","y">> }

Entry(link, id, title, summary, published, updated, created) ==
    [link |-> link, id |-> id, title |-> title, summary |-> summary,
     published |-> published, updated |-> updated, created |-> created]

NoEntry == Entry(<<>>, <<>>, <<>>, <<>>, NoField, NoField, NoField)

NoSocialFilters ==
    [block_domains |-> {}, block_terms |-> {}, allow_links |-> {},
     allow_gov |-> TRUE, min_text |-> 0]

SocialFilters ==
    [block_domains |-> {<<"s","p","a","m",".","e","x","a","m","p","l","e">>},
     block_terms |-> {<<"G","i","v","e","a","w","a","y">>},
     allow_links |-> {<<"b","b","c",".","c","o",".","u","k">>},
     allow_gov |-> TRUE, min_text |-> 8]

\* the same filters with allow_gov_like_tlds: false
SocialFiltersNoGov == [SocialFilters EXCEPT !.allow_gov = FALSE]

\* what load_social_filters may have returned at import
SocialConfigs == {NoSocialFilters, SocialFilters, SocialFiltersNoGov}

\* the texts: every title with every summary, from a news feed
TextScenarios ==
    { <<Entry(url_local, <<>>, t, s, OkField(5, 10, 0, 0), NoField, NoField),
        <<"E","x","a","m","p","l","e"," ","N","e","w","s">>, <<"n","e","w","s">>>> :
      t \in Titles, s \in Summaries }

\* posts of a social feed that has no title: from a blocked and from an
\* unblocked domain, with and without a link, a blocked term, enough text
SocialScenarios ==
    { <<Entry(u, <<>>, w_Fire, s, NoField, NoField, NoField), <<>>, <<"S","o","c","i","a","l">>>> :
      u \in {url_social, url_local},
      s \in { <<>>,
              <<"d","r","i","l","l"," ","s","e","e"," ","h","t","t","p","s",":","/","/","w","w","w",".","b","b","c",".","c","o",".","u","k","/","a">>,
              <<"d","r","i","l","l"," ","s","e","e"," ","h","t","t","p",":","/","/","F","A","A",".","g","o","v","/","n",")">>,
              <<"G","i","v","e","a","w","a","y"," ","a","t"," ","t","h","e"," ","d","r","i","l","l">>,
              <<"d","r","i","l","l"," ","a","t"," ","t","h","e"," ","e","m","b","a","s","s","y">> } }

\* the publish times: each of published, updated and created absent,
\* unparseable or parsed, in UTC or in another zone; the link absent
DateScenarios ==
    { <<Entry(<<>>, url_bbc, w_Fire, <<>>, p, u, c), <<>>, w_news>> :
      p \in {NoField, BadField, OkField(5, 10, 0, 2)},
      u \in {NoField, BadField, OkField(5, 9, 250000, 0)},
      c \in {NoField, BadField, OkField(4, 23, 0, -3)} }

Scenarios == TextScenarios \cup SocialScenarios \cup DateScenarios

----------------------------------------------------------------------------
(* The feed lists, the failure bookkeeping and fetch_feed.  FEEDS holds the *)
(* lists of feeds.yaml and feeds-extra.yaml under their keys; a dict (the   *)
(* broken-feeds file, fail_db) is a sequence of [k, v].                     *)

FAIL_HARD_CODES == {401, 403, 404}

FAIL_MAX_CONSEC == 3

FAIL_EMPTY_MAX == 3

NoFeeds ==
    [news |-> <<>>, news_extra |-> <<>>,
     aviation_authorities |-> <<>>, aviation_authorities_extra |-> <<>>,
     official_announcements |-> <<>>, official_announcements_extra |-> <<>>,
     weather_alerts |-> <<>>, weather_alerts_extra |-> <<>>,
     social |-> <<>>, social_extra |-> <<>>]

\* dedupe(seq): the first occurrence of each element, in order
RECURSIVE dedupe(_)
dedupe(seq) ==
    IF seq = <<>> THEN <<>>
    ELSE LET front == dedupe(SubSeq(seq, 1, Len(seq) - 1))
             s     == seq[Len(seq)]
         IN  IF \E i \in 1..Len(front) : front[i] = s THEN front ELSE Append(front, s)

\* broken_all: the URLs under any key of the broken-feeds file
broken_all(feeds_broke) ==
    UNION { {feeds_broke[i].v[j] : j \in 1..Len(feeds_broke[i].v)} : i \in 1..Len(feeds_broke) }

\* ok(lst)
ok_feeds(lst, feeds_broke) == SelectSeq(lst, LAMBDA u : u \notin broken_all(feeds_broke))

\* load_all_feeds(): <<NEWS, AUTH, OFFICIAL, WEATHER, SOCIAL>>
load_all_feeds(feeds, feeds_broke) ==
    LET both(main, extra) == dedupe(ok_feeds(main, feeds_broke) \o ok_feeds(extra, feeds_broke))
    IN  << both(feeds.news, feeds.news_extra),
           both(feeds.aviation_authorities, feeds.aviation_authorities_extra),
           both(feeds.official_announcements, feeds.official_announcements_extra),
           both(feeds.weather_alerts, feeds.weather_alerts_extra),
           both(feeds.social, feeds.social_extra) >>

\* the five calls of collect_block in collect_all, as one list of feeds with
\* the declared type each is collected under
all_blocks(lists) ==
    LET block(l, declared) == [i \in 1..Len(l) |-> [url |-> l[i], declared |-> declared]]
    IN  block(lists[1], w_news) \o block(lists[2], w_news) \o block(lists[3], w_news)
        \o block(lists[4], w_news) \o block(lists[5], w_social)

\* a variant that appends the url whether it is listed or not
mark_broken_append(y, url) ==
    LET listed == IF DictHas(y, "broken") THEN DictGet(y, "broken") ELSE <<>>
    IN  DictSet(y, "broken", Append(listed, url))

\* mark_broken(url): the broken-feeds file afterwards
mark_broken(y, url) ==
    LET listed == IF DictHas(y, "broken") THEN DictGet(y, "broken") ELSE <<>>
    IN  IF \E i \in 1..Len(listed) : listed[i] = url THEN y
        ELSE DictSet(y, "broken", Append(listed, url))

\* update_fail_bookkeeping(url, reason, fail_db): fail_db afterwards, and
\* the value returned
update_fail_bookkeeping(url, reason, db) ==
    LET rec == IF DictHas(db, url) THEN DictGet(db, url) ELSE [hard |-> 0, empty |-> 0]
        upd == IF reason \in {"401", "403", "404"} THEN [rec EXCEPT !.hard = @ + 1]
               ELSE IF reason = "empty" THEN [rec EXCEPT !.empty = @ + 1]
               ELSE [hard |-> Max2(0, rec.hard - 1), empty |-> Max2(0, rec.empty - 1)]
    IN  [fail_db |-> DictSet(db, url, upd),
         quarantine |-> upd.hard >= FAIL_MAX_CONSEC \/ upd.empty >= FAIL_EMPTY_MAX]

\* a variant that leaves the counters as they are
record_success_no_reset(url, db) == db

\* record_success(url, fail_db): fail_db afterwards
record_success(url, db) ==
    IF DictHas(db, url) THEN DictSet(db, url, [hard |-> 0, empty |-> 0]) ELSE db

\* what the request of a feed meets: a response with a status code and,
\* when the code is 200, the feed parsed from it; or an exception
StatusResponse(code) == [kind |-> "response", status |-> code, title |-> <<>>, entries |-> <<>>]

FeedResponse(title, entries) ==
    [kind |-> "response", status |-> 200, title |-> title, entries |-> entries]

RaisedException == [kind |-> "exception", status |-> 0, title |-> <<>>, entries |-> <<>>]

str_of_status(code) ==
    IF code = 401 THEN "401" ELSE IF code = 403 THEN "403" ELSE IF code = 404 THEN "404"
    ELSE "other"

\* fetch_feed(url, fail_db): [title, entries, fail_reason]
fetch_feed(url, met) ==
    LET dom == domain_of(url)
    IN  IF met.kind = "exception"
        THEN [title |-> dom, entries |-> <<>>, fail_reason |-> "other"]
        ELSE IF met.status \in FAIL_HARD_CODES
        THEN [title |-> dom, entries |-> <<>>, fail_reason |-> str_of_status(met.status)]
        ELSE IF met.status >= 400
        THEN [title |-> dom, entries |-> <<>>, fail_reason |-> "other"]
        ELSE IF met.entries = <<>>
        THEN [title |-> IF met.title # <<>> THEN met.title ELSE dom,
              entries |-> <<>>, fail_reason |-> "empty"]
        ELSE [title |-> IF met.title # <<>> THEN met.title ELSE dom,
              entries |-> met.entries, fail_reason |-> ""]

----------------------------------------------------------------------------
(* collect_all up to the merge, as a process: a run begins, the feeds are   *)
(* fetched one by one, fail_db is saved.  A run begins when no run is in    *)
(* progress.                                                                *)

MaxRuns == 2

PerFeedLimit == 80

\* the outcomes of the external calls of normalise within one feed
FeedExts == { [detect |-> "en", tr_title |-> "ok", tr_summary |-> "ok",
               now |-> [d |-> 9, h |-> 12, us |-> 250000, off |-> 0]] }

\* the items of the entries of one feed: the loop of lines 355-357
RECURSIVE normalise_all(_, _, _, _, _, _)
normalise_all(entries, title, declared, ext, cfg, airports) ==
    IF entries = <<>> THEN <<>>
    ELSE normalise_all(SubSeq(entries, 1, Len(entries) - 1), title, declared, ext, cfg, airports)
         \o normalise(entries[Len(entries)], title, declared, ext, cfg, airports)

\* lines 363-372: the feed lists and fail_db are loaded
StartRun ==
    /\ c_pc \in {"idle", "done", "failed"}
    /\ run < MaxRuns
    /\ run' = run + 1
    /\ feed_urls' = all_blocks(load_all_feeds(FEEDS, broken_yaml))
    /\ fail_db' = fail_counts
    /\ items' = <<>> /\ best' = <<>> /\ out' = <<>>
    /\ c_pc' = "blocks"
    /\ UNCHANGED <<data_json, FEEDS, broken_yaml, fail_counts, fetched>>
    /\ UNCHANGED <<AIRPORTS, SOCIAL, m_vars, n_vars, k_vars, d_vars>>

\* two feeds that carry the same link under different titles and times,
\* and each an entry without a link
feed_a == <<"h","t","t","p","s",":","/","/","a",".","e","x","a","m","p","l","e","/","r","s","s">>

feed_b == <<"h","t","t","p","s",":","/","/","b",".","e","x","a","m","p","l","e","/","r","s","s">>

FeedContent(url) ==
    IF url = feed_a
    THEN FeedResponse(<<"A"," ","N","e","w","s">>,
            << Entry(url_local, <<>>, <<"F","i","r","e"," ","d","r","i","l","l">>, <<>>, OkField(5, 10, 0, 0), NoField, NoField),
               Entry(<<>>, <<>>, w_Fire, <<"I","S","T"," ","a","i","r","p","o","r","t"," ","s","e","c","u","r","i","t","y">>, OkField(5, 8, 0, 0), NoField, NoField) >>)
    ELSE FeedResponse(<<>>,
            << Entry(url_local, <<>>, <<"F","i","r","e"," ","d","r","i","l","l"," ","e","n","d","s">>, <<"a","t"," ","t","h","e"," ","e","m","b","a","s","s","y">>, OkField(6, 9, 0, 2), NoField, NoField),
               Entry(<<>>, <<>>, w_Fire, <<>>, NoField, NoField, NoField) >>)

\* what the request of url may meet: a hard status, another error status,
\* an exception, a feed without entries, the feed
Responses(url) ==
    { StatusResponse(404), StatusResponse(500), RaisedException,
      FeedResponse(<<>>, <<>>), FeedContent(url) }

\* a variant in which a failed fetch ends the loop
after_failure_break(urls) == <<>>

\* line 352, continue: the feeds left to fetch after a failed fetch
after_failure(urls) == Tail(urls)

\* one turn of the loop of collect_block (lines 345-359) for the next feed
FetchFeed ==
    /\ c_pc = "blocks"
    /\ feed_urls # <<>>
    /\ \E met \in Responses(Head(feed_urls).url) : \E ext \in FeedExts :
          LET f   == Head(feed_urls).url
              got == fetch_feed(f, met)
              upd == update_fail_bookkeeping(f, got.fail_reason, fail_db)
          IN  /\ IF got.fail_reason # ""
                 THEN /\ fail_db' = upd.fail_db
                      /\ broken_yaml' = IF upd.quarantine THEN mark_broken(broken_yaml, f)
                                        ELSE broken_yaml
                      /\ items' = items
                      /\ feed_urls' = after_failure(feed_urls)
                 ELSE /\ fail_db' = record_success(f, fail_db)
                      /\ broken_yaml' = broken_yaml
                      /\ feed_urls' = Tail(feed_urls)
                      /\ items' = items \o normalise_all(
                                    SubSeq(got.entries, 1, Min2(Len(got.entries), PerFeedLimit)),
                                    got.title, Head(feed_urls).declared, ext, SOCIAL, AIRPORTS)
              /\ fetched' = Append(fetched,
                    [run |-> run, url |-> f, declared |-> Head(feed_urls).declared,
                     reason |-> got.fail_reason,
                     quarantined |-> got.fail_reason # "" /\ upd.quarantine])
    /\ UNCHANGED <<c_pc, best, out, data_json, FEEDS, fail_counts, run>>
    /\ UNCHANGED <<AIRPORTS, SOCIAL, m_vars, n_vars, k_vars, d_vars>>

\* line 380: save_fail_db(fail_db), and on to the merge
SaveFailDb ==
    /\ c_pc = "blocks"
    /\ feed_urls = <<>>
    /\ fail_counts' = fail_db
    /\ c_pc' = "dedup"
    /\ UNCHANGED <<items, best, out, data_json, FEEDS, broken_yaml, fail_db, feed_urls,
                   fetched, run>>
    /\ UNCHANGED <<AIRPORTS, SOCIAL, m_vars, n_vars, k_vars, d_vars>>

CollectStep == StartRun \/ FetchFeed \/ SaveFailDb

----------------------------------------------------------------------------
(* classify_type as a call: its arguments, then its result. *)

\* the declared types: social in three spellings, near misses, news, none
DeclaredTypes ==
    { w_social, <<"S","o","c","i","a","l">>, <<"S","O","C","I","A","L">>,
      <<"s","o","c","i","a","l","s">>, <<"s","o","c","i","a","l"," ">>, w_news, <<>> }

\* the source domains: major outlets, subdomains of them, domains that end
\* with the letters of one, domains that hold one elsewhere, others, none
SourceDomains ==
    { <<"b","b","c",".","c","o",".","u","k">>,
      <<"n","e","w","s",".","b","b","c",".","c","o",".","u","k">>,
      <<"f","t",".","c","o","m">>,
      <<"s","o","f","t",".","c","o","m">>,
      <<"f","t",".","c","o","m",".","e","x","a","m","p","l","e">>,
      <<"F","T",".","C","O","M">>,
      <<"g","o","v",".","u","k">>,
      <<"l","o","c","a","l",".","e","x","a","m","p","l","e">>,
      <<"t",".","c","o","m">>,
      <<>> }

ClassifyUrls == {url_bbc, url_local, <<>>}

K_Classify ==
    /\ k_pc = "call"
    /\ k_type' = classify_type(k_url, k_declared, k_src_domain)
    /\ k_pc' = "return"
    /\ UNCHANGED <<k_url, k_declared, k_src_domain>>
    /\ UNCHANGED <<AIRPORTS, SOCIAL, m_vars, n_vars, c_vars, f_vars, d_vars>>

----------------------------------------------------------------------------
(* The texts match_airport is run on: a subject and a nearby word, in either *)
(* order, a gap of spaces apart, with an optional third word after one more  *)
(* space.                                                                    *)

FarGap == 20

MaxGap == 42

\* the gap lengths: the words adjacent, one space apart, and far enough
\* apart for the far word to reach the edge of the window
Gaps == {0, 1} \cup (FarGap..MaxGap)

Gap(n) == [i \in 1..n |-> " "]

SubjectWords ==
    { <<"f","i","r","s","t">>,
      <<"t","h","e","a","t","r","e">>,
      <<"I","S","T">>,
      <<"t","h","e">>,
      <<"F","R","A">>,
      <<"H","e","a","t","h","r","o","w">>,
      <<"h","e","a","t","h","r","o","w","s">>,
      <<"F","r","a","n","k","f","u","r","t"," ","a","m"," ","M","a","i","n">>,
      <<"I","s","t","a","n","b","u","l"," ","A","i","r","p","o","r","t">> }

NearbyWords ==
    { <<"a","i","r","p","o","r","t">>,
      <<"T","e","r","m","i","n","a","l","s">>,
      <<"t","e","r","m","i","n","a","l","l","y">>,
      <<"s","u","b","t","e","r","m","i","n","a","l">>,
      <<"f","i","r","e">> }

TailWords == {<<>>, <<" ">> \o w_LHR, <<" ">> \o w_Heathrow}

Texts ==
    {<<>>} \cup
    { a \o Gap(g) \o b \o c :
        a \in SubjectWords, b \in NearbyWords, g \in Gaps, c \in TailWords }
    \cup
    { b \o Gap(g) \o a \o c :
        a \in SubjectWords, b \in NearbyWords, g \in Gaps, c \in TailWords }

----------------------------------------------------------------------------
(* The items collect_all merges: what normalise returns for an entry with   *)
(* the given link, title and publish time.                                  *)

MakeItem(url, title, dt) ==
    stage_assemble(
        [NoLocals EXCEPT !.url = url, !.title_clean = title, !.title_en = title,
                         !.lang = "en", !.pub = <<astimezone_utc(dt)>>,
                         !.src_dom = domain_of(url), !.src_name = domain_of(url),
                         !.item_tags = <<tag_airport_security>>],
        w_news)

Time(d, h, us, off) == [d |-> d, h |-> h, us |-> us, off |-> off]

\* three publish times: two in the same second, one of them with a
\* fraction, and one given in another time zone
ItemTimes == {Time(5, 10, 0, 0), Time(5, 10, 250000, 0), Time(5, 9, 0, -2)}

ItemTitles == {<<"F","i","r","e"," ","d","r","i","l","l">>, <<"F","i","r","e"," ","d","r","i","l","l"," ","e","n","d","s">>}

\* one link with one title, the other with either title, at each time
ItemPool ==
    { MakeItem(url_bbc, w_Fire, dt) : dt \in ItemTimes }
    \cup { MakeItem(url_local, t, dt) : t \in ItemTitles, dt \in ItemTimes }

MaxItems == 3

RECURSIVE SeqsUpTo(_, _)
SeqsUpTo(S, n) ==
    IF n = 0 THEN {<<>>}
    ELSE LET shorter == SeqsUpTo(S, n - 1)
         IN  shorter \cup { Append(q, x) : q \in {r \in shorter : Len(r) = n - 1}, x \in S }

ItemLists == SeqsUpTo(ItemPool, MaxItems)

\* data.json as an earlier run left it
PriorFiles ==
    { [items |-> <<>>, valid |-> TRUE],
      [items |-> <<MakeItem(url_local, <<"F","i","r","e"," ","a","l","a","r","m">>, Time(4, 8, 0, 0))>>, valid |-> TRUE] }

NoFile == [items |-> <<>>, valid |-> FALSE]

\* long lists of items, one per link: item i of a list is published at hour
\* ((i \div 2) * stride) % BulkHours of the month, so the items come in pairs
\* of one publish time and, by the stride, oldest first, newest first or
\* scattered
BulkMin == 498

BulkMax == 503

BulkHours == 601

BulkStrides == {1, 7, 600}

BulkItem(i, stride) ==
    LET k == ((i \div 2) * stride) % BulkHours
    IN  MakeItem(url_local \o Digits(i, 3), w_Fire, Time(1 + (k \div 24), k % 24, 0, 0))

BulkLists ==
    { [i \in 1..n |-> BulkItem(i, stride)] : n \in BulkMin..BulkMax, stride \in BulkStrides }

----------------------------------------------------------------------------
(* The specifications. *)

InitResolve ==
    /\ AIRPORTS = AirportsFile
    /\ text \in Texts
    /\ m_pc = "alias"
    /\ m_result = <<>>
    /\ SOCIAL = NoSocialFilters
    /\ entry = NoEntry /\ feedtitle = <<>> /\ declared_type = <<>>
    /\ n_pc = "idle" /\ loc = NoLocals /\ n_result = <<>> /\ calls = <<>> /\ n_ext = NoExt
    /\ c_pc = "idle" /\ items = <<>> /\ best = <<>> /\ out = <<>>
    /\ data_json = NoFile
    /\ FEEDS = NoFeeds /\ broken_yaml = <<>> /\ fail_counts = <<>> /\ fail_db = <<>>
    /\ feed_urls = <<>> /\ fetched = <<>> /\ run = 0
    /\ k_pc = "idle" /\ k_url = <<>> /\ k_declared = <<>> /\ k_src_domain = <<>>
    /\ k_type = ""
    /\ DiscoverIdle

NextResolve == AliasPass \/ BareCodePass

SpecResolve == InitResolve /\ [][NextResolve]_vars

InitNormalise ==
    /\ AIRPORTS \in Registries
    /\ SOCIAL \in SocialConfigs
    /\ \E sc \in Scenarios :
          /\ entry = sc[1]
          /\ feedtitle = sc[2]
          /\ declared_type = sc[3]
    /\ n_pc = "start"
    /\ loc = NoLocals
    /\ n_result = <<>>
    /\ calls = <<>>
    /\ n_ext = NoExt
    /\ text = <<>> /\ m_pc = "idle" /\ m_result = <<>>
    /\ c_pc = "collect" /\ items = <<>> /\ best = <<>> /\ out = <<>>
    /\ data_json \in PriorFiles
    /\ FEEDS = NoFeeds /\ broken_yaml = <<>> /\ fail_counts = <<>> /\ fail_db = <<>>
    /\ feed_urls = <<>> /\ fetched = <<>> /\ run = 0
    /\ k_pc = "idle" /\ k_url = <<>> /\ k_declared = <<>> /\ k_src_domain = <<>>
    /\ k_type = ""
    /\ DiscoverIdle

NextNormalise == NormaliseStep \/ MergeAndWrite

SpecNormalise == InitNormalise /\ [][NextNormalise]_vars

\* collect_all from the merge on, with the items collected given
InitMerge ==
    /\ AIRPORTS = AirportsFile
    /\ SOCIAL = NoSocialFilters
    /\ text = <<>> /\ m_pc = "idle" /\ m_result = <<>>
    /\ entry = NoEntry /\ feedtitle = <<>> /\ declared_type = <<>>
    /\ n_pc = "idle" /\ loc = NoLocals /\ n_result = <<>> /\ calls = <<>> /\ n_ext = NoExt
    /\ c_pc = "dedup"
    /\ items \in ItemLists
    /\ best = <<>>
    /\ out = <<>>
    /\ data_json \in PriorFiles
    /\ FEEDS = NoFeeds /\ broken_yaml = <<>> /\ fail_counts = <<>> /\ fail_db = <<>>
    /\ feed_urls = <<>> /\ fetched = <<>> /\ run = 0
    /\ k_pc = "idle" /\ k_url = <<>> /\ k_declared = <<>> /\ k_src_domain = <<>>
    /\ k_type = ""
    /\ DiscoverIdle

NextMerge == MergeAndWrite

SpecMerge == InitMerge /\ [][NextMerge]_vars

\* the same with the long lists
InitMergeBulk ==
    /\ AIRPORTS = AirportsFile
    /\ SOCIAL = NoSocialFilters
    /\ text = <<>> /\ m_pc = "idle" /\ m_result = <<>>
    /\ entry = NoEntry /\ feedtitle = <<>> /\ declared_type = <<>>
    /\ n_pc = "idle" /\ loc = NoLocals /\ n_result = <<>> /\ calls = <<>> /\ n_ext = NoExt
    /\ c_pc = "dedup"
    /\ items \in BulkLists
    /\ best = <<>>
    /\ out = <<>>
    /\ data_json = [items |-> <<>>, valid |-> TRUE]
    /\ FEEDS = NoFeeds /\ broken_yaml = <<>> /\ fail_counts = <<>> /\ fail_db = <<>>
    /\ feed_urls = <<>> /\ fetched = <<>> /\ run = 0
    /\ k_pc = "idle" /\ k_url = <<>> /\ k_declared = <<>> /\ k_src_domain = <<>>
    /\ k_type = ""
    /\ DiscoverIdle

SpecMergeBulk == InitMergeBulk /\ [][NextMerge]_vars

\* classify_type on its own
InitClassify ==
    /\ AIRPORTS = <<>>
    /\ SOCIAL = NoSocialFilters
    /\ text = <<>> /\ m_pc = "idle" /\ m_result = <<>>
    /\ entry = NoEntry /\ feedtitle = <<>> /\ declared_type = <<>>
    /\ n_pc = "idle" /\ loc = NoLocals /\ n_result = <<>> /\ calls = <<>> /\ n_ext = NoExt
    /\ c_pc = "idle" /\ items = <<>> /\ best = <<>> /\ out = <<>>
    /\ data_json = NoFile
    /\ FEEDS = NoFeeds /\ broken_yaml = <<>> /\ fail_counts = <<>> /\ fail_db = <<>>
    /\ feed_urls = <<>> /\ fetched = <<>> /\ run = 0
    /\ k_pc = "call"
    /\ k_url \in ClassifyUrls
    /\ k_declared \in DeclaredTypes
    /\ k_src_domain \in SourceDomains
    /\ k_type = ""
    /\ DiscoverIdle

NextClassify == K_Classify

SpecClassify == InitClassify /\ [][NextClassify]_vars

\* feeds.yaml and feeds-extra.yaml: a feed listed twice under one key and
\* once more under another key, and a second feed
FeedsFiles ==
    { [NoFeeds EXCEPT !.news = <<feed_a, feed_b>>, !.news_extra = <<feed_a>>,
                      !.social = <<feed_a>>] }

\* the files and the fetches made before the runs followed here: none, or
\* one run in which every feed answered 404
Histories ==
    { [fetched |-> <<>>, fail_counts |-> <<>>, data_json |-> NoFile],
      [fetched |->
          << [run |-> 0, url |-> feed_a, declared |-> w_news, reason |-> "404",
              quarantined |-> FALSE],
             [run |-> 0, url |-> feed_b, declared |-> w_news, reason |-> "404",
              quarantined |-> FALSE],
             [run |-> 0, url |-> feed_a, declared |-> w_social, reason |-> "404",
              quarantined |-> FALSE] >>,
       fail_counts |-> << [k |-> feed_a, v |-> [hard |-> 2, empty |-> 0]],
                          [k |-> feed_b, v |-> [hard |-> 1, empty |-> 0]] >>,
       data_json |-> [items |-> <<>>, valid |-> TRUE]] }

\* runs of collect_all, one after another
Init ==
    /\ AIRPORTS = AirportsFile
    /\ SOCIAL = NoSocialFilters
    /\ text = <<>> /\ m_pc = "idle" /\ m_result = <<>>
    /\ entry = NoEntry /\ feedtitle = <<>> /\ declared_type = <<>>
    /\ n_pc = "idle" /\ loc = NoLocals /\ n_result = <<>> /\ calls = <<>> /\ n_ext = NoExt
    /\ c_pc = "idle" /\ items = <<>> /\ best = <<>> /\ out = <<>>
    /\ FEEDS \in FeedsFiles
    /\ broken_yaml = <<>>
    /\ \E past \in Histories :
          /\ fetched = past.fetched
          /\ fail_counts = past.fail_counts
          /\ data_json = past.data_json
    /\ fail_db = <<>>
    /\ feed_urls = <<>> /\ run = 0
    /\ k_pc = "idle" /\ k_url = <<>> /\ k_declared = <<>> /\ k_src_domain = <<>>
    /\ k_type = ""
    /\ DiscoverIdle

Next == CollectStep \/ MergeAndWrite

Spec == Init /\ [][Next]_vars

----------------------------------------------------------------------------
(* Properties of normalise. *)

NormaliseReturned ==
    n_pc \in {"return_excluded", "return_social", "return_irrelevant", "return_item"}

\* the English-resolved text of the entry, once the translate stage has run
EnglishText == loc.title_en \o <<" ">> \o loc.summary_en

EnglishTextKnown == n_pc \notin {"idle", "start", "detect", "translate"}

\* some term of the set stands in t, whatever the case of either
TermIn(terms, t) ==
    \E x \in terms : \E p \in 0..Len(t) :
        /\ p + Len(x) <= Len(t)
        /\ str_lower(SubSeq(t, p + 1, p + Len(x))) = str_lower(x)

RelevanceTags == {tag_airport_security, tag_diplomatic}

HasRelevanceTag(tags) == \E i \in 1..Len(tags) : tags[i] \in RelevanceTags

AllRelevant(its) == \A i \in 1..Len(its) : HasRelevanceTag(its[i].tags)

\* C1: normalise returns an item only for an entry whose English text holds
\* a core or diplomacy term, and the item carries a relevance tag; an entry
\* whose tags after location resolution hold no relevance tag returns none;
\* and every item collected, merged or written to data.json carries a
\* relevance tag
C1_RelevanceGate ==
    /\ n_pc = "return_item" =>
          /\ HasRelevanceTag(n_result[1].tags)
          /\ TermIn(CORE \cup DIPLO, EnglishText)
    /\ NormaliseReturned /\ ~HasRelevanceTag(loc.item_tags) => n_result = <<>>
    /\ AllRelevant(items) /\ AllRelevant(out) /\ AllRelevant(data_json.items)

\* an entry resolved to an airport, with the airport's code and country as
\* its only tags, returned none, and the run wrote a collection without it
C1_Witness ==
    /\ n_pc = "return_irrelevant"
    /\ loc.geo # <<>>
    /\ Len(loc.item_tags) = 2
    /\ c_pc = "done"
    /\ data_json.items = <<>>

\* C2: once the English text is known and an exclusion term stands in it,
\* normalise goes nowhere but to its return of none: tags_for and
\* match_airport are not called, no item is built, nothing is collected
C2_ExclusionShortCircuit ==
    EnglishTextKnown /\ TermIn(EXCLUDE, EnglishText) =>
        /\ n_pc \in {"exclude", "return_excluded"}
        /\ n_result = <<>>
        /\ \A i \in 1..Len(calls) : calls[i] \notin {"tags_for", "match_airport"}
        /\ items = <<>>

\* an entry whose English text holds an exclusion term and a core or
\* diplomacy term returned none
C2_Witness ==
    /\ n_pc = "return_excluded"
    /\ TermIn(EXCLUDE, EnglishText)
    /\ TermIn(CORE \cup DIPLO, EnglishText)
    /\ c_pc = "done"

\* C13: with the airport file missing, ALIASES and IATA_TO_LL are empty,
\* match_airport returns none for the entry's text, whether it names an
\* airport of the file or not, geo stays empty, the tags are those of tags_for, an
\* entry is returned as an item exactly when tags_for gives it a relevance
\* tag, and the item has an empty geo and the tags of tags_for
C13_NoRegistry ==
    AIRPORTS = <<>> =>
        /\ ALIASES(AIRPORTS) = <<>> /\ IATA_TO_LL(AIRPORTS) = <<>>
        /\ EnglishTextKnown => match_airport(EnglishText, AIRPORTS) = <<>>
        /\ loc.geo = <<>>
        /\ n_pc \in {"gate", "assemble", "return_irrelevant", "return_item"} =>
              loc.item_tags = tags_for(EnglishText)
        /\ n_pc = "return_irrelevant" => ~HasRelevanceTag(tags_for(EnglishText))
        /\ n_pc = "return_item" =>
              /\ HasRelevanceTag(tags_for(EnglishText))
              /\ n_result[1].geo = <<>>
              /\ n_result[1].tags = sorted_set(tags_for(EnglishText))
        /\ \A i \in 1..Len(out) : out[i].geo = <<>>

\* with the airport file missing, an entry whose text names an airport of
\* the file was returned as an item and written, and an entry whose text
\* names one was rejected for want of a relevance tag
C13_Witness ==
    /\ AIRPORTS = <<>>
    /\ match_airport(EnglishText, AirportsFile) # <<>>
    /\ c_pc = "done"
    /\ \/ n_pc = "return_item" /\ data_json.items = n_result
       \/ n_pc = "return_irrelevant" /\ data_json.items = <<>>

----------------------------------------------------------------------------
(* Properties of match_airport, stated on the text itself. *)

ReturnedNone == m_pc = "return_none"

Returned == m_pc \in {"return_alias", "return_code", "return_none"}

\* the upper-cased codes of the registry's airports
KnownCodes == {str_upper(AIRPORTS[i].iata) : i \in 1..Len(AIRPORTS)} \ {<<>>}

\* the codes of the airports that also have numeric coordinates
CodesWithCoords ==
    {str_upper(AIRPORTS[i].iata) : i \in {j \in 1..Len(AIRPORTS) : AIRPORTS[j].ll # <<>>}}
        \ {<<>>}

\* the registry's aliases other than bare three-letter codes, lower-cased
NonCodeAliases ==
    LET all == UNION { {str_lower(AIRPORTS[i].aliases[j]) :
                            j \in 1..Len(AIRPORTS[i].aliases)} :
                       i \in 1..Len(AIRPORTS) }
    IN  {a \in all : Len(a) > 0 /\ ~(Len(a) = 3 /\ str_isalpha(a))}

\* lit stands at offset p of t, ignoring case
OccursAt(t, p, lit) ==
    /\ p + Len(lit) <= Len(t)
    /\ str_lower(SubSeq(t, p + 1, p + Len(lit))) = str_lower(lit)

\* the n characters at offset p of t are a whole word (or whole words) of t
Standalone(t, p, n) ==
    /\ p = 0 \/ ~IsWordChar(t[p])
    /\ p + n = Len(t) \/ ~IsWordChar(t[p + n + 1])

\* the occurrences <<q, n>> of an airport-context word (optionally plural,
\* ignoring case) in t: it stands at offset q and is n long
ContextOccurrences(t) ==
    LET tl == str_lower(t)
    IN  { qn \in { <<q, Len(w) + e>> : q \in 0..Len(t), w \in ContextWords, e \in {0, 1} } :
            \E w \in ContextWords :
                \/ qn[2] = Len(w) /\ MatchesAt(tl, qn[1], w)
                \/ qn[2] = Len(w) + 1 /\ MatchesAt(tl, qn[1], w \o <<"s">>) }

\* a context word lies wholly inside the window of 48 characters either side
\* of offset pos, word-bounded there, the window's edges counting as bounds
ContextInWindow(t, pos) ==
    LET lo == Max2(0, pos - Window)
        hi == Min2(Len(t), pos + Window)
    IN  \E qn \in ContextOccurrences(t) :
            /\ lo <= qn[1]
            /\ qn[1] + qn[2] <= hi
            /\ qn[1] = lo \/ ~IsWordChar(t[qn[1]])
            /\ qn[1] + qn[2] = hi \/ ~IsWordChar(t[qn[1] + qn[2] + 1])

\* C6: when a known code occurs in the text only inside longer words and no
\* non-code alias occurs in it, match_airport returns None, whatever airport
\* context surrounds it.
CodeOnlyInsideWords ==
    /\ \E c \in KnownCodes : \E p \in 0..Len(text) : OccursAt(text, p, c)
    /\ \A c \in KnownCodes : \A p \in 0..Len(text) :
           OccursAt(text, p, c) => ~Standalone(text, p, 3)
    /\ \A a \in NonCodeAliases : \A p \in 0..Len(text) : ~OccursAt(text, p, a)

C6_NoCodeInsideWord ==
    (Returned /\ CodeOnlyInsideWords) => m_result = <<>>

C6_Witness ==
    /\ ReturnedNone
    /\ CodeOnlyInsideWords
    /\ \E c \in KnownCodes : \E p \in 0..Len(text) :
           OccursAt(text, p, c) /\ ContextInWindow(text, p)

\* the offsets of the standalone three-letter tokens of the text that are,
\* upper-cased, the code of an airport with coordinates and have an
\* airport-context word in their window
QualifyingTokens ==
    {p \in 0..(Len(text) - 3) :
        /\ Standalone(text, p, 3)
        /\ str_isalpha(SubSeq(text, p + 1, p + 3))
        /\ str_upper(SubSeq(text, p + 1, p + 3)) \in CodesWithCoords
        /\ ContextInWindow(text, p)}

\* the match carries exactly the code, name, city, country and coordinates
\* of some airport of the registry whose code is c
CarriesAirportOfCode(match, c) ==
    \E i \in 1..Len(AIRPORTS) :
        /\ str_upper(AIRPORTS[i].iata) = c
        /\ match.iata = c
        /\ match.name = AIRPORTS[i].name
        /\ match.city = AIRPORTS[i].city
        /\ match.country = AIRPORTS[i].country
        /\ match.ll = AIRPORTS[i].ll

PastAliasLoop == m_pc \in {"return_code", "return_none"} /\ text # <<>>

\* the standalone occurrences <<p, c>> of known codes, as written in the
\* registry, in the text
CodeOccurrences ==
    { pc \in (0..Len(text)) \X KnownCodes :
        MatchesAt(text, pc[1], pc[2]) /\ Standalone(text, pc[1], 3) }

ContextWithin48(t, p, n) ==
    \E qn \in ContextOccurrences(t) :
        /\ Standalone(t, qn[1], qn[2])
        /\ \/ qn[1] >= p - Window /\ qn[1] + qn[2] <= p
           \/ qn[1] >= p + n /\ qn[1] + qn[2] <= p + n + Window

\* the match carries the code, name, city and country of airport i
CarriesAirport(match, i) ==
    /\ match.iata = str_upper(AIRPORTS[i].iata)
    /\ match.name = AIRPORTS[i].name
    /\ match.city = AIRPORTS[i].city
    /\ match.country = AIRPORTS[i].country

IsNonCodeAlias(a) == Len(a) > 0 /\ ~(Len(a) = 3 /\ str_isalpha(a))

\* the airports with an alias (not a bare code) standing as a whole word in
\* the text
AirportsNamed ==
    {i \in 1..Len(AIRPORTS) :
        \E j \in 1..Len(AIRPORTS[i].aliases) : \E p \in 0..Len(text) :
            /\ IsNonCodeAlias(AIRPORTS[i].aliases[j])
            /\ OccursAt(text, p, AIRPORTS[i].aliases[j])
            /\ Standalone(text, p, Len(AIRPORTS[i].aliases[j]))}

\* C8 as claimed, read for a text that names one airport: an alias (not a
\* bare code) that stands as a whole word with a context word within 48
\* characters before or after it resolves to the airport that owns it, the
\* limit being the same on both sides and for every alias length.
C8_Original ==
    (Returned /\ text # <<>> /\ Cardinality(AirportsNamed) = 1) =>
        \A i \in AirportsNamed : \A j \in 1..Len(AIRPORTS[i].aliases) :
            \A p \in 0..Len(text) :
                LET a == AIRPORTS[i].aliases[j]
                IN  ( /\ IsNonCodeAlias(a)
                      /\ OccursAt(text, p, a)
                      /\ Standalone(text, p, Len(a))
                      /\ ContextWithin48(text, p, Len(a)) )
                    => m_result # <<>> /\ CarriesAirport(m_result[1], i)

\* alias j of airport i stands as a whole word somewhere in the text, and
\* either contains "airport" or has a context word in the window of 48
\* characters either side of the offset where it starts
AliasQualifies(i, j) ==
    LET a == AIRPORTS[i].aliases[j]
    IN  /\ IsNonCodeAlias(a)
        /\ \E p \in 0..Len(text) :
               /\ OccursAt(text, p, a)
               /\ Standalone(text, p, Len(a))
               /\ \/ \E q \in 0..Len(a) : OccursAt(a, q, w_airport)
                  \/ ContextInWindow(str_lower(text), p)

QualifyingAirports ==
    {i \in 1..Len(AIRPORTS) : \E j \in 1..Len(AIRPORTS[i].aliases) : AliasQualifies(i, j)}

\* C8 as amended: the window is counted from the offset where the alias
\* starts, so a context word after the alias must end within 48 characters of
\* the alias's start; when some alias qualifies, the result is the match of
\* the first airport (in registry order) with a qualifying alias.
C8_AliasWithContext ==
    (Returned /\ text # <<>> /\ QualifyingAirports # {}) =>
        /\ m_pc = "return_alias"
        /\ LET i == CHOOSE k \in QualifyingAirports :
                        \A l \in QualifyingAirports : k <= l
           IN  CarriesAirport(m_result[1], i)

C8_Witness ==
    /\ m_pc = "return_alias"
    /\ m_result[1].iata = w_LHR
    /\ \E p \in 0..Len(text) :
           /\ OccursAt(text, p, w_Heathrow)
           /\ \E qn \in ContextOccurrences(text) :
                  qn[1] > p /\ Standalone(text, qn[1], qn[2])

\* a context word (optionally plural, ignoring case) that is a whole word
\* of the text lies, at least in part, within the 48 characters before
\* offset p or the 48 characters after offset p + n
WholeWordContextNear(t, p, n) ==
    \E qn \in ContextOccurrences(t) :
        /\ Standalone(t, qn[1], qn[2])
        /\ qn[1] + qn[2] > p - Window
        /\ qn[1] < p + n + Window

\* C15 as stated: a match is returned for an alias only when the alias
\* contains "airport" or a context word that is a whole word of the text lies
\* within 48 characters of a whole-word occurrence of the alias, and for a
\* bare code only when such a context word lies within 48 characters of the
\* token; a longer word cut by the edge of the window does not count
C15_ContextRequired ==
    /\ m_pc = "return_alias" =>
          \E i \in 1..Len(AIRPORTS) : \E j \in 1..Len(AIRPORTS[i].aliases) :
             \E p \in 0..Len(text) :
                LET a == AIRPORTS[i].aliases[j]
                IN  /\ IsNonCodeAlias(a)
                    /\ OccursAt(text, p, a)
                    /\ Standalone(text, p, Len(a))
                    /\ CarriesAirport(m_result[1], i)
                    /\ \/ \E q \in 0..Len(a) : OccursAt(a, q, w_airport)
                       \/ WholeWordContextNear(text, p, Len(a))
    /\ m_pc = "return_code" =>
          \E p \in 0..(Len(text) - 3) :
             /\ Standalone(text, p, 3)
             /\ str_upper(SubSeq(text, p + 1, p + 3)) = m_result[1].iata
             /\ WholeWordContextNear(text, p, 3)

\* C16 as stated: a match of the bare-code pass is for a standalone token
\* of the text that is written in three uppercase letters
C16_UppercaseTokensOnly ==
    m_pc = "return_code" =>
        \E p \in 0..(Len(text) - 3) :
            /\ Standalone(text, p, 3)
            /\ \A k \in 1..3 : text[p + k] \in UpperSet
            /\ SubSeq(text, p + 1, p + 3) = m_result[1].iata

----------------------------------------------------------------------------
(* Properties of the merge and of the write of data.json.  Publish times   *)
(* are read back from the published_at strings.                              *)

DigitVal(c) == CHOOSE n \in 0..9 : DigitSeq[n + 1] = c

RECURSIVE Number(_, _, _)
Number(str, from, to) ==
    IF to < from THEN 0
    ELSE Number(str, from, to - 1) * 10 + DigitVal(str[to])

\* the instant an ISO-8601 string names: whole hours UTC since the start of
\* 2024-01-00, and microseconds
Instant(str) ==
    LET frac == str[20] = "."
        us   == IF frac THEN Number(str, 21, 26) ELSE 0
        o    == IF frac THEN 27 ELSE 20
        off  == IF str[o] = "-" THEN 0 - Number(str, o + 1, o + 2)
                ELSE Number(str, o + 1, o + 2)
    IN  [h |-> Number(str, 9, 10) * 24 + Number(str, 12, 13) - off, us |-> us]

\* instant x is at or after instant y
AtOrAfter(x, y) == x.h > y.h \/ (x.h = y.h /\ x.us >= y.us)

NotBefore(a, b) == AtOrAfter(Instant(a), Instant(b))

Before(a, b) == ~NotBefore(a, b)

Merged == c_pc \in {"open", "dump", "dumping", "done", "failed"}

ElemsOf(l) == {l[i] : i \in 1..Len(l)}

\* C3: after the merge, out holds at most one item per id, every id
\* collected is in out (no list here reaches the cap), and the item out
\* holds for an id is a collected item whose publish time no collected item
\* of that id exceeds
C3_LatestPerId ==
    Merged =>
        /\ \A i, j \in 1..Len(out) : i # j => out[i].id # out[j].id
        /\ \A n \in 1..Len(items) : \E i \in 1..Len(out) : out[i].id = items[n].id
        /\ \A i \in 1..Len(out) :
              /\ out[i] \in ElemsOf(items)
              /\ \A n \in 1..Len(items) :
                    items[n].id = out[i].id =>
                        NotBefore(out[i].published_at, items[n].published_at)

\* two items of one id were collected, the later-published one second, and
\* out holds the later-published one
C3_Witness ==
    /\ Merged
    /\ \E m, n \in 1..Len(items) :
          /\ m < n
          /\ items[m].id = items[n].id
          /\ Before(items[m].published_at, items[n].published_at)
          /\ items[n] \in ElemsOf(out)
          /\ items[m] \notin ElemsOf(out)

Orderings(l) ==
    { [i \in 1..Len(l) |-> l[f[i]]] :
        f \in { g \in [1..Len(l) -> 1..Len(l)] : \A a, b \in 1..Len(l) : a # b => g[a] # g[b] } }

\* no two different collected items carry the same published_at
DistinctTimes ==
    \A m, n \in 1..Len(items) :
        items[m] # items[n] => items[m].published_at # items[n].published_at

\* C4 as stated: every ordering of the collected items merges to the same
\* out, ties included, and merging out again gives out
C4_Original ==
    Merged =>
        /\ \A q \in Orderings(items) : merge_items(q) = out
        /\ merge_items(out) = out

\* C4: merging out again gives out; and when no two different collected
\* items carry the same published_at, every ordering of the collected items
\* merges to the same out
C4_MergeOrderIndependent ==
    Merged =>
        /\ merge_items(out) = out
        /\ DistinctTimes => \A q \in Orderings(items) : merge_items(q) = out

\* three different items, two of one id, were collected oldest first, and
\* the merge reordered them
C4_Witness ==
    /\ Merged
    /\ DistinctTimes
    /\ Len(items) = 3
    /\ Len(out) = 2
    /\ out # SubSeq(items, 1, 2)
    /\ Before(items[1].published_at, items[3].published_at)

\* C9: the items of data.json, whenever it holds a whole document, are in
\* descending order of publish time
C9_PublishedDescending ==
    data_json.valid =>
        \A i \in 1..(Len(data_json.items) - 1) :
            NotBefore(data_json.items[i].published_at, data_json.items[i + 1].published_at)

\* a run has written two or more items that it collected oldest first
C9_Witness ==
    /\ c_pc = "done"
    /\ Len(data_json.items) >= 2
    /\ \E m, n \in 1..Len(items) :
          /\ m < n
          /\ items[m] \in ElemsOf(data_json.items)
          /\ items[n] \in ElemsOf(data_json.items)
          /\ Before(items[m].published_at, items[n].published_at)

\* C5 as stated: data.json holds a whole document at every point of a run,
\* the earlier run's or this run's, and after a failed write it holds the
\* earlier run's
C5_AtomicReplace ==
    /\ data_json.valid
    /\ data_json \in PriorFiles \/ data_json.items = out
    /\ c_pc = "failed" => data_json \in PriorFiles

\* the values of best that are not in out
Dropped == ElemsOf(dict_values(best)) \ ElemsOf(out)

\* C10: data.json never holds more than 500 items, and after the cap every
\* item of out was published at or after every item the cap dropped
C10_Cap ==
    /\ Len(data_json.items) <= 500
    /\ Merged =>
          /\ Len(out) <= 500
          /\ \A kept \in ElemsOf(out), dropped \in Dropped :
                NotBefore(kept.published_at, dropped.published_at)

\* a run has written 500 items out of more, and an item it dropped was
\* collected before an item it kept
C10_Witness ==
    /\ c_pc = "done"
    /\ Len(best) > 500
    /\ Len(data_json.items) = 500
    /\ items[1] \in Dropped
    /\ items[Len(items)] \in ElemsOf(data_json.items)

----------------------------------------------------------------------------
(* Properties of the runs of collect_all: Spec.                             *)

\* the items of this run and the items the runs before it wrote
Collected == ElemsOf(items) \cup ElemsOf(out) \cup ElemsOf(data_json.items)

\* C11: two items with the same non-empty URL have the same id, whatever
\* their titles, summaries, publish times, sources, types and runs; two items
\* with no URL and the same English title have the same id; and after the
\* merge out holds at most one item for a URL
C11_IdentityStable ==
    /\ \A x \in Collected, y \in Collected :
          /\ (x.url # <<>> /\ x.url = y.url) => x.id = y.id
          /\ (x.url = <<>> /\ y.url = <<>> /\ x.title_en = y.title_en) => x.id = y.id
    /\ Merged =>
          \A i \in 1..Len(out), j \in 1..Len(out) :
             (i # j /\ out[i].url # <<>>) => out[i].url # out[j].url

\* a run has collected the same link twice with different titles, summaries,
\* publish times and sources, the run before it wrote an item for that link,
\* it has collected two items with no link and one title from feeds declared
\* differently, and its merge is over
C11_Witness ==
    /\ Merged
    /\ \E x \in ElemsOf(items), y \in ElemsOf(items) :
          /\ x.url # <<>> /\ x.url = y.url
          /\ x.title_en # y.title_en /\ x.summary_en # y.summary_en
          /\ x.published_at # y.published_at /\ x.source # y.source
          /\ \E z \in ElemsOf(data_json.items) : z.url = x.url /\ z \notin ElemsOf(out)
    /\ \E x \in ElemsOf(items), y \in ElemsOf(items) :
          /\ x.url = <<>> /\ y.url = <<>> /\ x.title_en = y.title_en
          /\ x.type # y.type

\* the fetches of the run in progress (or of the last run), in order
RunLog == SelectSeq(fetched, LAMBDA e : e.run = run)

\* the broken-feeds file as it was when the run began: what it holds now
\* less the feeds this run has put there
BrokenAtStart ==
    [i \in 1..Len(broken_yaml) |->
        [k |-> broken_yaml[i].k,
         v |-> SelectSeq(broken_yaml[i].v,
                 LAMBDA u : \A j \in 1..Len(RunLog) :
                               ~(RunLog[j].url = u /\ RunLog[j].quarantined))]]

\* the feeds the run loaded, with their declared types
Loaded == all_blocks(load_all_feeds(FEEDS, BrokenAtStart))

Failures == {"401", "403", "404", "other", "empty"}

\* C12: whatever the fetches of a run met, the feeds fetched so far followed
\* by the feeds still to fetch are the feeds the run loaded, in order; a
\* failed fetch adds no item and leaves the run in its loop with the later
\* feeds still to fetch; past the loop every loaded feed has been fetched,
\* and a run that has closed data.json has written its merged items there
C12_FailureRecoverable ==
    /\ [](run > 0 =>
            /\ [i \in 1..Len(RunLog) |->
                   [url |-> RunLog[i].url, declared |-> RunLog[i].declared]]
               \o feed_urls = Loaded
            /\ c_pc # "blocks" => Len(RunLog) = Len(Loaded)
            /\ c_pc = "done" => data_json = [items |-> out, valid |-> TRUE])
    /\ [][(c_pc = "blocks" /\ feed_urls # <<>>) =>
            /\ Len(fetched') = Len(fetched) + 1
            /\ c_pc' = "blocks"
            /\ feed_urls' = Tail(feed_urls)
            /\ fetched'[Len(fetched')].reason \in Failures => items' = items]_vars

\* a run has written items to data.json although its first fetch failed, and
\* each kind of failure has been followed by a fetch that succeeded in the
\* same run
C12_Witness ==
    /\ c_pc = "done"
    /\ RunLog[1].reason \in Failures
    /\ data_json.items # <<>>
    /\ \A r \in {"404", "other", "empty"} :
          \E i \in 1..Len(fetched), j \in 1..Len(fetched) :
             /\ i < j /\ fetched[i].run = fetched[j].run
             /\ fetched[i].reason = r /\ fetched[j].reason = ""

----------------------------------------------------------------------------
(* Properties of classify_type: SpecClassify. *)

\* a and b are the same string but for the case of their letters
SameIgnoringCase(a, b) ==
    /\ Len(a) = Len(b)
    /\ \A i \in 1..Len(a) : LowerChar(a[i]) = LowerChar(b[i])

\* the last letters of s are d
EndsWith(s, d) ==
    /\ Len(d) <= Len(s)
    /\ \A i \in 1..Len(d) : s[Len(s) - Len(d) + i] = d[i]

\* C14: classify_type returns "social" exactly when the declared type is
\* "social" in any case; otherwise "major news" exactly when the domain
\* ends with a major domain, and "local news" otherwise; and the url it is
\* given makes no difference to what it returns
C14_Classification ==
    k_pc = "return" =>
        /\ k_type = "social" <=> SameIgnoringCase(k_declared, w_social)
        /\ k_type = "major news" <=>
              /\ ~SameIgnoringCase(k_declared, w_social)
              /\ \E d \in MAJOR_DOMAINS : EndsWith(k_src_domain, d)
        /\ k_type = "local news" <=>
              /\ ~SameIgnoringCase(k_declared, w_social)
              /\ ~\E d \in MAJOR_DOMAINS : EndsWith(k_src_domain, d)
        /\ \A u \in ClassifyUrls : classify_type(u, k_declared, k_src_domain) = k_type

\* classify_type returned "social" for a major domain under a declared
\* type that is not written in lowercase
C14_Witness ==
    /\ k_pc = "return"
    /\ k_type = "social"
    /\ k_declared # w_social
    /\ k_src_domain \in MAJOR_DOMAINS

----------------------------------------------------------------------------
(* Properties of normalise: the publish time and the language handling.     *)

\* the first of published, updated, created that is present and parses
FirstOk ==
    IF entry.published.p = "ok" THEN <<entry.published.dt>>
    ELSE IF entry.updated.p = "ok" THEN <<entry.updated.dt>>
    ELSE IF entry.created.p = "ok" THEN <<entry.created.dt>>
    ELSE <<>>

\* the instant the entry's publish time should be: that of FirstOk, or the
\* time of the normalisation
ExpectedInstant ==
    IF FirstOk # <<>>
    THEN [h |-> FirstOk[1].d * 24 + FirstOk[1].h - FirstOk[1].off, us |-> FirstOk[1].us]
    ELSE LET now == CHOOSE n \in Nows : TRUE
         IN  [h |-> now.d * 24 + now.h - now.off, us |-> now.us]

TimeResolved ==
    n_pc \in {"social", "tags", "airport", "gate", "assemble",
              "return_social", "return_irrelevant", "return_item"}

\* C17: once normalise is past its time stage, pub is in UTC and is the
\* instant of the first of published, updated, created that is present and
\* parses, unparseable fields before it notwithstanding, or the time of the
\* normalisation when there is none; and the published_at of the item
\* returned names that instant with a +00:00 offset
C17_PublishTime ==
    /\ TimeResolved =>
          /\ Len(loc.pub) = 1
          /\ loc.pub[1].off = 0
          /\ [h |-> loc.pub[1].d * 24 + loc.pub[1].h, us |-> loc.pub[1].us] = ExpectedInstant
    /\ n_pc = "return_item" =>
          LET at == n_result[1].published_at
          IN  /\ Instant(at) = ExpectedInstant
              /\ SubSeq(at, Len(at) - 5, Len(at)) = <<"+","0","0",":","0","0">>

\* an item was returned whose published field does not parse, whose
\* updated field does not parse, and whose created field is in another zone
C17_Witness ==
    /\ n_pc = "return_item"
    /\ entry.published.p = "bad" /\ entry.updated.p = "bad"
    /\ entry.created.p = "ok" /\ entry.created.dt.off # 0
    /\ c_pc = "done" /\ data_json.items = n_result

Translated == n_pc \notin {"idle", "start", "detect", "translate"}

\* C18: when the detection raises, the language is "en" and to_english is
\* not called; to_english is called only for a language other than "en";
\* a translation that raises leaves the English field equal to the cleaned
\* original, whatever became of the other field's translation; and what
\* normalise returns after a failed detection or translation is what it
\* returns for the same entry taken as English or left untranslated
C18_BestEffortLanguage ==
    /\ (n_ext.detect = "raise" /\ n_pc # "detect") => loc.lang = "en"
    /\ Translated =>
          /\ loc.lang = "en" =>
                /\ \A i \in 1..Len(calls) : calls[i] # "to_english"
                /\ n_ext.tr_title = "not called" /\ n_ext.tr_summary = "not called"
                /\ loc.title_en = loc.title_clean /\ loc.summary_en = loc.summary_clean
          /\ n_ext.tr_title = "raise" => loc.title_en = loc.title_clean
          /\ n_ext.tr_summary = "raise" => loc.summary_en = loc.summary_clean
          /\ n_ext.tr_title = "ok" => loc.title_en = GoogleTranslate(loc.title_clean)
          /\ n_ext.tr_summary = "ok" => loc.summary_en = GoogleTranslate(loc.summary_clean)
    /\ NormaliseReturned =>
          /\ n_pc = "return_excluded" => TermIn(EXCLUDE, EnglishText)
          /\ n_pc = "return_social" => SameIgnoringCase(declared_type, w_social)
          /\ n_pc = "return_irrelevant" => ~HasRelevanceTag(loc.item_tags)
          /\ n_pc = "return_item" =>
                /\ n_result[1].lang = loc.lang
                /\ n_result[1].title_en = loc.title_en
                /\ n_result[1].summary_en = loc.summary_en
                /\ n_result[1].title_orig = loc.title_clean

\* an item was returned for an entry in German whose title's translation
\* raised and whose summary's translation succeeded: its English title is
\* the original and its English summary is the translation
C18_Witness ==
    /\ n_pc = "return_item"
    /\ n_ext.detect = "de" /\ n_ext.tr_title = "raise" /\ n_ext.tr_summary = "ok"
    /\ n_result[1].title_en = n_result[1].title_orig
    /\ n_result[1].summary_en # n_result[1].summary_orig
    /\ c_pc = "done" /\ data_json.items = n_result

----------------------------------------------------------------------------
(* Properties of the failure bookkeeping and of the quarantine: Spec.       *)

HardReasons == {"401", "403", "404"}

\* the fetches of the url of fetch i, up to and including fetch i, since the
\* last fetch of that url that succeeded, whose reason is in rs
FailedSince(i, rs) ==
    { j \in 1..i :
        /\ fetched[j].url = fetched[i].url
        /\ fetched[j].reason \in rs
        /\ \A k \in (j + 1)..i :
              ~(fetched[k].url = fetched[i].url /\ fetched[k].reason = "") }

\* the list under "broken" in the broken-feeds file y
BrokenList(y) == IF DictHas(y, "broken") THEN DictGet(y, "broken") ELSE <<>>

NonNegative(db) == \A i \in 1..Len(db) : db[i].v.hard >= 0 /\ db[i].v.empty >= 0

\* the counters of url in db reach a threshold
AtThreshold(db, url) ==
    /\ DictHas(db, url)
    /\ \/ DictGet(db, url).hard >= 3
       \/ DictGet(db, url).empty >= 3

\* C19: the counters are never negative; a fetch that quarantined its feed
\* was a failed one, and the feed had failed hard at least three times, or
\* come back empty at least three times, since its last successful fetch;
\* the broken-feeds file changes only by a failed fetch that leaves a
\* counter of its feed at three or more, and then by that feed being added;
\* a successful fetch leaves the file alone and the feed's counters at zero
C19_QuarantineThreshold ==
    /\ [](/\ NonNegative(fail_db) /\ NonNegative(fail_counts)
          /\ \A i \in 1..Len(fetched) :
                fetched[i].quarantined =>
                   /\ fetched[i].reason \in Failures
                   /\ \/ Cardinality(FailedSince(i, HardReasons)) >= 3
                      \/ Cardinality(FailedSince(i, {"empty"})) >= 3)
    /\ [][LET last == fetched'[Len(fetched')]
          IN  /\ broken_yaml' # broken_yaml =>
                    /\ Len(fetched') = Len(fetched) + 1
                    /\ last.reason \in Failures
                    /\ AtThreshold(fail_db', last.url)
                    /\ BrokenList(broken_yaml') = Append(BrokenList(broken_yaml), last.url)
              /\ (Len(fetched') = Len(fetched) + 1 /\ last.reason = "") =>
                    /\ broken_yaml' = broken_yaml
                    /\ DictHas(fail_db', last.url) =>
                          DictGet(fail_db', last.url) = [hard |-> 0, empty |-> 0]]_vars

\* a feed was quarantined at its third hard failure since a fetch of it
\* that succeeded, after hard failures before that success
C19_Witness ==
    \E i \in 1..Len(fetched) :
        /\ fetched[i].quarantined
        /\ Cardinality(FailedSince(i, HardReasons)) = 3
        /\ \E j \in 1..i : \E k \in 1..j :
              /\ fetched[j].url = fetched[i].url /\ fetched[j].reason = ""
              /\ fetched[k].url = fetched[i].url /\ fetched[k].reason \in HardReasons
        /\ BrokenList(broken_yaml) = <<fetched[i].url>>

\* C20: a feed is fetched after a fetch that quarantined it only within
\* the same run; once it is in the broken-feeds file no later run loads it
\* under any of its categories; every quarantined feed is in the file, and
\* the file lists no feed twice
C20_QuarantineEffective ==
    /\ \A i \in 1..Len(fetched), j \in 1..Len(fetched) :
          (i < j /\ fetched[i].quarantined /\ fetched[j].url = fetched[i].url)
             => fetched[j].run = fetched[i].run
    /\ \A i \in 1..Len(fetched) :
          fetched[i].quarantined =>
             \E n \in 1..Len(BrokenList(broken_yaml)) :
                BrokenList(broken_yaml)[n] = fetched[i].url
    /\ \A n \in 1..Len(BrokenList(BrokenAtStart)) :
          /\ \A j \in 1..Len(RunLog) : RunLog[j].url # BrokenList(BrokenAtStart)[n]
          /\ \A j \in 1..Len(feed_urls) : feed_urls[j].url # BrokenList(BrokenAtStart)[n]
    /\ \A m \in 1..Len(BrokenList(broken_yaml)), n \in 1..Len(BrokenList(broken_yaml)) :
          m # n => BrokenList(broken_yaml)[m] # BrokenList(broken_yaml)[n]

\* a feed listed under news and under social was quarantined twice in one
\* run, the file lists it once, and the next run has ended having fetched
\* only the other feed
C20_Witness ==
    /\ run = 2 /\ c_pc = "done"
    /\ \E i \in 1..Len(fetched), j \in 1..Len(fetched) :
          /\ i < j /\ fetched[i].run = 1 /\ fetched[j].run = 1
          /\ fetched[i].url = feed_a /\ fetched[j].url = feed_a
          /\ fetched[i].quarantined /\ fetched[j].quarantined
          /\ fetched[i].declared # fetched[j].declared
    /\ BrokenList(broken_yaml) = <<feed_a>>
    /\ Len(RunLog) = 1 /\ RunLog[1].url = feed_b

----------------------------------------------------------------------------
(* Properties of normalise: the social gate. *)

DeclaredSocial == SameIgnoringCase(declared_type, w_social)

\* the domains of the links in the English text
LinkDomains ==
    { domain_of(extract_urls(EnglishText)[i]) : i \in 1..Len(extract_urls(EnglishText)) }

\* C21: an item returned for an entry declared social has a post host that
\* is not a blocked domain, a text not shorter than the minimum, no blocked
\* term in its text and, when link domains are allowed by list, a link to an
\* allowed domain or, with that enabled, to a government-like domain; for an
\* entry not declared social is_social_allowed is not called, normalise
\* does not return at the social gate, and what it returns is what it
\* returns under every social filter configuration
C21_SocialGate ==
    /\ (n_pc = "return_item" /\ DeclaredSocial) =>
          /\ domain_of(loc.url) \notin SOCIAL.block_domains
          /\ Len(EnglishText) >= SOCIAL.min_text
          /\ ~TermIn(SOCIAL.block_terms, EnglishText)
          /\ SOCIAL.allow_links # {} =>
                \/ LinkDomains \cap SOCIAL.allow_links # {}
                \/ SOCIAL.allow_gov /\ \E d \in LinkDomains : looks_gov_like(d)
    /\ ~DeclaredSocial =>
          /\ n_pc # "return_social"
          /\ \A i \in 1..Len(calls) : calls[i] # "is_social_allowed"
          /\ (NormaliseReturned /\ c_pc = "collect") =>
                \A cfg \in SocialConfigs :
                   normalise(entry, feedtitle, declared_type,
                             [detect |-> n_ext.detect, tr_title |-> n_ext.tr_title,
                              tr_summary |-> n_ext.tr_summary,
                              now |-> CHOOSE n \in Nows : TRUE],
                             cfg, AIRPORTS) = n_result

\* under filters with a blocked domain, a minimum length, a blocked term and
\* a list of allowed link domains, a post of a feed declared "Social" whose
\* only link is to a government-like domain was returned as an item and
\* written
C21_Witness ==
    /\ n_pc = "return_item"
    /\ DeclaredSocial /\ declared_type # w_social
    /\ SOCIAL = SocialFilters
    /\ LinkDomains # {} /\ LinkDomains \cap SOCIAL.allow_links = {}
    /\ c_pc = "done" /\ data_json.items = n_result


----------------------------------------------------------------------------
\* src/discover_feeds.py: the discovery script

COMMON_HINTS ==
    <<<<"/","r","s","s">>, <<"/","r","s","s",".","x","m","l">>, <<"/","f","e","e","d">>, <<"/","f","e","e","d","s">>, <<"/","a","t","o","m">>, <<"/","i","n","d","e","x",".","x","m","l">>,
      <<"/","c","a","t","e","g","o","r","y","/","n","e","w","s","/","f","e","e","d">>, <<"/","?","f","e","e","d","=","r","s","s","2">>, <<"/","?","f","e","e","d","=","a","t","o","m">>>>

LeastOf(S) == CHOOSE x \in S : \A y \in S : x <= y

\* norm: the line stripped, then everything from its first "#" removed
norm(u) ==
    LET t      == str_strip(u)
        hashes == {p \in 1..Len(t) : t[p] = "#"}
    IN  IF hashes = {} THEN t ELSE SubSeq(t, 1, LeastOf(hashes) - 1)

\* the characters urllib allows in a scheme
scheme_chars == LowerSet \cup UpperSet \cup DigitChars \cup {"+", "-", "."}

\* the position in s of the first character that is one of chars, 0 for none
first_of(s, chars) ==
    LET at == {p \in 1..Len(s) : s[p] \in chars}
    IN  IF at = {} THEN 0 ELSE LeastOf(at)

\* urllib.parse.urlparse, its fields scheme, netloc and path: the scheme is what
\* stands before the first ":" when that is a letter followed by scheme
\* characters, lower-cased; the netloc follows "//" up to the next "/", "?" or
\* "#"; the path ends at the first "?" or "#" (for a url without tabs and
\* line breaks, which urllib removes first, and without ";")
urlparse(url) ==
    LET parts(scheme, netloc, tail, e) ==
            [scheme |-> scheme, netloc |-> netloc,
             path |-> IF e = 0 THEN tail ELSE SubSeq(tail, 1, e - 1)]
        with_path(scheme, netloc, tail) ==
            parts(scheme, netloc, tail, first_of(tail, {"?", "#"}))
        with_netloc(scheme, after, d) ==
            IF d = 0 THEN with_path(scheme, after, <<>>)
            ELSE with_path(scheme, SubSeq(after, 1, d - 1), SubSeq(after, d, Len(after)))
        after_scheme(scheme, rest) ==
            IF MatchesAt(rest, 0, <<"/", "/">>)
            THEN with_netloc(scheme, SubSeq(rest, 3, Len(rest)),
                             first_of(SubSeq(rest, 3, Len(rest)), {"/", "?", "#"}))
            ELSE with_path(scheme, <<>>, rest)
        with_scheme(i) ==
            IF /\ i > 1
               /\ IsAlphaChar(url[1])
               /\ \A q \in 1..(i - 1) : url[q] \in scheme_chars
            THEN after_scheme(str_lower(SubSeq(url, 1, i - 1)), SubSeq(url, i + 1, Len(url)))
            ELSE after_scheme(<<>>, url)
    IN  with_scheme(first_of(url, {":"}))

\* homepage: scheme://netloc/ of the url, read as https when it names no
\* scheme; "" when it has no netloc
homepage(url) ==
    LET root_of(p) ==
            IF p.netloc = <<>> THEN <<>>
            ELSE p.scheme \o <<":", "/", "/">> \o p.netloc \o <<"/">>
        home_of(p) ==
            IF p.scheme = <<>> THEN root_of(urlparse(w_https \o url)) ELSE root_of(p)
    IN  home_of(urlparse(url))

\* str.rstrip("/")
RECURSIVE rstrip_slash(_)
rstrip_slash(s) ==
    IF s # <<>> /\ s[Len(s)] = "/" THEN rstrip_slash(SubSeq(s, 1, Len(s) - 1)) ELSE s

\* try_common: the root with each common path
try_common(url) ==
    LET hints(root) ==
            IF root = <<>> THEN <<>>
            ELSE [h \in 1..Len(COMMON_HINTS) |-> rstrip_slash(root) \o COMMON_HINTS[h]]
    IN  hints(homepage(url))

\* re.search(r"(rss|atom|feed)(\.xml|\/)?($|\?)", seed, re.I): one of the three
\* words, then ".xml" or "/" or neither, then the end of the string (or its
\* last line break) or a "?"
looks_like_feed(seed) ==
    LET s == str_lower(seed)
    IN  \E p \in 0..Len(s) :
        \E w \in {<<"r","s","s">>, <<"a","t","o","m">>, <<"f","e","e","d">>} :
        \E opt \in {<<>>, <<".","x","m","l">>, <<"/">>} :
            /\ MatchesAt(s, p, w \o opt)
            /\ LET e == p + Len(w) + Len(opt)
               IN  \/ e = Len(s)
                   \/ e = Len(s) - 1 /\ s[Len(s)] = "\n"
                   \/ e < Len(s) /\ s[e + 1] = "?"

\* the answers of the probed sites, fixed for a run: the feed links each home
\* page advertises (find_rel_alternate, already joined to the page's URL), and
\* the URLs that serve a feed with entries
Homepages ==
    <<[k |-> <<"h","t","t","p","s",":","/","/","a",".","e","x","a","m","p","l","e","/">>,
       v |-> <<<<"h","t","t","p","s",":","/","/","w","w","w",".","a",".","e","x","a","m","p","l","e","/","F","e","e","d">>, <<"h","t","t","p","s",":","/","/","a",".","e","x","a","m","p","l","e","/","c","o","m","m","e","n","t","s","/","f","e","e","d">>>>],
      [k |-> <<"h","t","t","p",":","/","/","w","w","w",".","a",".","e","x","a","m","p","l","e","/">>, v |-> <<<<"h","t","t","p","s",":","/","/","a",".","e","x","a","m","p","l","e","/","f","e","e","d">>>>],
      [k |-> <<"h","t","t","p","s",":","/","/","b",".","e","x","a","m","p","l","e","/">>, v |-> <<<<"h","t","t","p","s",":","/","/","b",".","e","x","a","m","p","l","e","/","i","n","d","e","x",".","x","m","l">>>>]>>

WorkingFeeds ==
    {<<"h","t","t","p","s",":","/","/","a",".","e","x","a","m","p","l","e","/","f","e","e","d">>, <<"h","t","t","p","s",":","/","/","w","w","w",".","a",".","e","x","a","m","p","l","e","/","F","e","e","d">>,
     <<"h","t","t","p",":","/","/","w","w","w",".","a",".","e","x","a","m","p","l","e","/","f","e","e","d">>, <<"h","t","t","p",":","/","/","w","w","w",".","a",".","e","x","a","m","p","l","e","/","f","e","e","d","/">>,
     <<"h","t","t","p","s",":","/","/","a",".","e","x","a","m","p","l","e","/","?","f","e","e","d","=","r","s","s","2">>, <<"h","t","t","p","s",":","/","/","a",".","e","x","a","m","p","l","e","/","?","f","e","e","d","=","a","t","o","m">>,
     <<"h","t","t","p","s",":","/","/","b",".","e","x","a","m","p","l","e","/","i","n","d","e","x",".","x","m","l">>}

\* find_rel_alternate: the advertised feed links, [] when the request fails
find_rel_alternate(url) ==
    IF DictHas(Homepages, url) THEN DictGet(Homepages, url) ELSE <<>>

\* is_working_feed: the request succeeded and the answer parsed to entries;
\* requests raises for a URL without an http scheme or a host, which counts
\* as not working
is_working_feed(url) ==
    LET reachable(p) == p.scheme \in {<<"h","t","t","p">>, <<"h","t","t","p","s">>} /\ p.netloc # <<>>
    IN  url \in WorkingFeeds /\ reachable(urlparse(url))

\* discover_for_seed up to "# validate": the set cand
candidates(seed) ==
    LET all(urls) == {urls[i] : i \in 1..Len(urls)}
        home(root) ==
            IF root # <<>> THEN all(find_rel_alternate(root) \o try_common(root)) ELSE {}
    IN  home(homepage(seed)) \cup (IF looks_like_feed(seed) THEN {seed} ELSE {})

\* discover_for_seed from "# validate": the set good
validate(cand) == {u \in cand : is_working_feed(u)}

discover_for_seed(seed) == validate(candidates(seed))

\* domain: the netloc lower-cased, with every "www." removed
domain(u) == str_remove(str_lower(urlparse(u).netloc), w_www_dot)

\* a variant in which a later URL replaces the one kept for its key
setdefault_overwrite(d, k, v) == DictSet(d, k, v)

\* dict.setdefault(k, v): the value is stored only when the key is new
setdefault(d, k, v) == IF DictHas(d, k) THEN d ELSE DictSet(d, k, v)

\* main's loop "for u in sorted(all_good)", over the URLs still to visit
RECURSIVE deduplicate(_, _)
deduplicate(urls, d) ==
    LET visit(u, dom) ==
            IF dom = <<>> THEN d
            ELSE setdefault(d, <<dom, str_lower(urlparse(u).path)>>, u)
    IN  IF urls = <<>> THEN d
        ELSE deduplicate(Tail(urls), visit(Head(urls), domain(Head(urls))))

\* ThreadPoolExecutor(max_workers=24)
max_workers == 24

\* the most lines of seeds.txt
MaxSeeds == 3

\* lines of seeds.txt: sites, a feed address, an indented line, a comment
SeedLines ==
    {<<"h","t","t","p","s",":","/","/","a",".","e","x","a","m","p","l","e","/","n","e","w","s","\n">>, <<"h","t","t","p",":","/","/","w","w","w",".","a",".","e","x","a","m","p","l","e","/","f","e","e","d","/","\n">>,
     <<" "," ","b",".","e","x","a","m","p","l","e","\n">>, <<"#"," ","r","e","g","i","o","n","a","l"," ","s","i","t","e","s","\n">>}

SeedFiles == {<<>>} \cup { <<ls>> : ls \in SeqsUpTo(SeedLines, MaxSeeds) }

\* f.readlines() through "[norm(x) for x in ... if norm(x)]"
RECURSIVE read_seeds(_)
read_seeds(lines) ==
    IF lines = <<>> THEN <<>>
    ELSE (IF norm(Head(lines)) # <<>> THEN <<norm(Head(lines))>> ELSE <<>>)
         \o read_seeds(Tail(lines))

\* main, to the pool: seeds.txt is read and ex.map submits one call per seed
D_Start ==
    /\ d_pc = "start"
    /\ seeds_txt # <<>>
    /\ seeds' = read_seeds(seeds_txt[1])
    /\ workers' = [i \in 1..Len(seeds') |-> [pc |-> "queued", cand |-> {}, good |-> {}]]
    /\ all_good' = {}
    /\ d_pc' = "map"
    /\ UNCHANGED <<seeds_txt, completed, mapped, deduped, d_feeds, feeds_extra>>
    /\ UNCHANGED <<AIRPORTS, SOCIAL, m_vars, n_vars, c_vars, f_vars, k_vars>>

\* main: seeds.txt is missing, sys.exit(1)
D_NoSeedsFile ==
    /\ d_pc = "start"
    /\ seeds_txt = <<>>
    /\ d_pc' = "exit"
    /\ UNCHANGED <<seeds_txt, seeds, workers, completed, mapped, all_good, deduped, d_feeds, feeds_extra>>
    /\ UNCHANGED <<AIRPORTS, SOCIAL, m_vars, n_vars, c_vars, f_vars, k_vars>>

\* a pool thread takes the call for seed i and runs it up to "# validate"
W_Home(i) ==
    /\ d_pc = "map"
    /\ workers[i].pc = "queued"
    /\ Cardinality({j \in 1..Len(workers) : workers[j].pc = "validate"}) < max_workers
    /\ workers' = [workers EXCEPT ![i] = [pc |-> "validate", cand |-> candidates(seeds[i]), good |-> {}]]
    /\ UNCHANGED <<d_pc, seeds_txt, seeds, completed, mapped, all_good, deduped, d_feeds, feeds_extra>>
    /\ UNCHANGED <<AIRPORTS, SOCIAL, m_vars, n_vars, c_vars, f_vars, k_vars>>

\* the call for seed i validates its candidates and returns
W_Validate(i) ==
    /\ d_pc = "map"
    /\ workers[i].pc = "validate"
    /\ workers' = [workers EXCEPT ![i] = [pc |-> "returned", cand |-> workers[i].cand,
                                       good |-> validate(workers[i].cand)]]
    /\ completed' = Append(completed, i)
    /\ UNCHANGED <<d_pc, seeds_txt, seeds, mapped, all_good, deduped, d_feeds, feeds_extra>>
    /\ UNCHANGED <<AIRPORTS, SOCIAL, m_vars, n_vars, c_vars, f_vars, k_vars>>

\* main: "for feeds in ex.map(...)" yields the next result in the order of
\* the seeds, once its call has returned
D_Map ==
    /\ d_pc = "map"
    /\ mapped < Len(seeds)
    /\ workers[mapped + 1].pc = "returned"
    /\ all_good' = all_good \cup workers[mapped + 1].good
    /\ mapped' = mapped + 1
    /\ UNCHANGED <<d_pc, seeds_txt, seeds, workers, completed, deduped, d_feeds, feeds_extra>>
    /\ UNCHANGED <<AIRPORTS, SOCIAL, m_vars, n_vars, c_vars, f_vars, k_vars>>

\* main: the pool is shut down and all_good is deduplicated
D_Dedup ==
    /\ d_pc = "map"
    /\ mapped = Len(seeds)
    /\ deduped' = deduplicate(SortedOf(all_good), <<>>)
    /\ d_pc' = "sort"
    /\ UNCHANGED <<seeds_txt, seeds, workers, completed, mapped, all_good, d_feeds, feeds_extra>>
    /\ UNCHANGED <<AIRPORTS, SOCIAL, m_vars, n_vars, c_vars, f_vars, k_vars>>

\* main: feeds = sorted(deduped.values())
D_Sort ==
    /\ d_pc = "sort"
    /\ d_feeds' = SortedOf({deduped[i].v : i \in 1..Len(deduped)})
    /\ d_pc' = "write"
    /\ UNCHANGED <<seeds_txt, seeds, workers, completed, mapped, all_good, deduped, feeds_extra>>
    /\ UNCHANGED <<AIRPORTS, SOCIAL, m_vars, n_vars, c_vars, f_vars, k_vars>>

\* main: {"news_extra": feeds} is written to feeds-extra.yaml
D_Write ==
    /\ d_pc = "write"
    /\ feeds_extra' = <<[news_extra |-> d_feeds]>>
    /\ d_pc' = "done"
    /\ UNCHANGED <<seeds_txt, seeds, workers, completed, mapped, all_good, deduped, d_feeds>>
    /\ UNCHANGED <<AIRPORTS, SOCIAL, m_vars, n_vars, c_vars, f_vars, k_vars>>

W_HomeStep == \E i \in 1..Len(workers) : W_Home(i)

W_ValidateStep == \E i \in 1..Len(workers) : W_Validate(i)

InitDiscover ==
    /\ AIRPORTS = <<>>
    /\ SOCIAL = NoSocialFilters
    /\ text = <<>> /\ m_pc = "idle" /\ m_result = <<>>
    /\ entry = NoEntry /\ feedtitle = <<>> /\ declared_type = <<>>
    /\ n_pc = "idle" /\ loc = NoLocals /\ n_result = <<>> /\ calls = <<>> /\ n_ext = NoExt
    /\ c_pc = "idle" /\ items = <<>> /\ best = <<>> /\ out = <<>>
    /\ data_json = NoFile
    /\ FEEDS = NoFeeds /\ broken_yaml = <<>> /\ fail_counts = <<>> /\ fail_db = <<>>
    /\ feed_urls = <<>> /\ fetched = <<>> /\ run = 0
    /\ k_pc = "idle" /\ k_url = <<>> /\ k_declared = <<>> /\ k_src_domain = <<>>
    /\ k_type = ""
    /\ d_pc = "start"
    /\ seeds_txt \in SeedFiles
    /\ seeds = <<>>
    /\ workers = <<>>
    /\ completed = <<>>
    /\ mapped = 0
    /\ all_good = {}
    /\ deduped = <<>>
    /\ d_feeds = <<>>
    /\ feeds_extra = <<>>

NextDiscover ==
    \/ D_Start
    \/ D_NoSeedsFile
    \/ W_HomeStep
    \/ W_ValidateStep
    \/ D_Map
    \/ D_Dedup
    \/ D_Sort
    \/ D_Write

SpecDiscover == InitDiscover /\ [][NextDiscover]_vars
----------------------------------------------------------------------------
\* feed discovery: what feeds-extra.yaml holds

\* the candidates of the run's seeds that were validated as working feeds
Validated ==
    {u \in UNION {candidates(seeds[i]) : i \in 1..Len(seeds)} : is_working_feed(u)}

\* the pair by which main deduplicates
KeyOf(u) == <<domain(u), str_lower(urlparse(u).path)>>

\* the list written to feeds-extra.yaml
Written == feeds_extra[1].news_extra

WrittenSet == {Written[i] : i \in 1..Len(Written)}

\* the validated URLs with a domain that are the smallest of their pair
SmallestOfPair ==
    {v \in Validated :
        /\ domain(v) # <<>>
        /\ \A w \in Validated : KeyOf(w) = KeyOf(v) => ~str_lt(w, v)}

\* C22: once feeds-extra.yaml is written, in whatever order the pool's calls
\* of discover_for_seed ran and returned, its list is fixed by the seeds and
\* the sites' answers alone: it holds only URLs validated as working feeds,
\* one URL per (domain, lower-cased path) pair, which is the smallest
\* validated URL of that pair, and it is in strictly ascending order
C22_DiscoveryDeterministic ==
    feeds_extra # <<>> =>
        /\ Written = SortedOf(SmallestOfPair)
        /\ WrittenSet \subseteq Validated
        /\ \A u \in WrittenSet : \A v \in WrittenSet : KeyOf(u) = KeyOf(v) => u = v
        /\ \A v \in Validated :
              domain(v) # <<>> =>
                 \E u \in WrittenSet : KeyOf(u) = KeyOf(v) /\ (u = v \/ str_lt(u, v))
        /\ \A i \in 1..Len(Written) : \A j \in 1..Len(Written) :
              i < j => str_lt(Written[i], Written[j])

\* three different seeds whose calls returned in the reverse of the seeds'
\* order, and a validated URL of one call dropped for a smaller URL of the
\* same pair found by another call
C22_Witness ==
    /\ feeds_extra # <<>>
    /\ Len(seeds) = 3
    /\ completed = <<3, 2, 1>>
    /\ seeds[1] # seeds[2] /\ seeds[2] # seeds[3] /\ seeds[1] # seeds[3]
    /\ Len(Written) >= 2
    /\ \E i \in 1..3 : \E j \in 1..3 :
          /\ i # j
          /\ \E v \in workers[i].good \ WrittenSet :
             \E u \in (workers[j].good \cap WrittenSet) \ workers[i].good :
                KeyOf(u) = KeyOf(v) /\ str_lt(u, v)

====
